---- MODULE Spec2Model ----
(***************************************************************************)
(* TrialByFire: the settlement ledger (TrialMarket contract) and the       *)
(* confidence evaluator of the trial pipeline.                             *)
(*                                                                         *)
(* Ledger amounts are in units of 0.01 ether.  Every ledger operation f    *)
(* has an operator fResult giving what a call returns in the current       *)
(* state: "ok" or the reason of the require() that fails.  A reverted      *)
(* transaction leaves the whole state unchanged.                           *)
(***************************************************************************)
EXTENDS Integers, Sequences, FiniteSets, TLC

\* ---------------------------------------------------------------- bounds
MaxMarkets == 1
MaxTime == 2
MaxStake == 3
MaxAmount == 2
MaxRequests == 2
MaxScore == 12
MaxThreshold == 6
MaxRegistry == 2
MaxSources == 2

\* ------------------------------------------------------ program constants
CREATION_DEPOSIT == 1

Owner == "owner"
Users == {"owner", "alice", "bob"}
Creators == {"alice"}
Stakers == {"alice", "bob"}
RequestIds == 1 .. MaxRequests
Amounts == 0 .. MaxAmount
DepositValues == {CREATION_DEPOSIT - 1, CREATION_DEPOSIT}

MarketStatus == {"Open", "SettlementRequested", "Resolved", "Escalated"}
Verdict == {"None", "Yes", "No"}

\* bytes32(0), and the hashes the owner hands to settle/escalate (bytes32
\* values are tuples, as the results of keccak256 are)
ZeroHash == <<"0x0">>
Hashes == {<<"h1">>, <<"h2">>}

VARIABLES
    now,                    \* block.timestamp
    balance,                \* address(this).balance
    nextMarketId,
    markets,
    yesPositions,
    noPositions,
    s_functionsSource,      \* length of the configured source (0 = unset)
    s_requestIdToMarketId,
    requests,               \* MockFunctionsRouter.requests: state per request id
    requestCounter,         \* MockFunctionsRouter._requestCounter
    totalPaid,              \* history: sum of all ether paid out per market
    winClaims,              \* history: successful claimWinnings per market, user
    refundClaims,           \* history: successful claimRefund per market, user
    ruling,                 \* evaluateConfidence: input ruling
    rubric,                 \* evaluateConfidence: input rubric
    decision,               \* evaluateConfidence: returned decision
    pc,                     \* runTrial: the await it is suspended at
    stages,                 \* runTrial: stages entered so far, in order
    fetches,                \* gatherEvidence: one promise per source
    evidence,               \* runTrial: the bundle gatherEvidence returned
    advocates,              \* runAdvocate("YES"|"NO"): call and its result
    judge,                  \* runJudge: call and its result
    transcript,             \* runTrial: the returned TrialTranscript
    log,                    \* events emitted by the latest transaction
    frame,                  \* claimWinnings suspended in its ether transfer
    upkeep                  \* the keeper: what its last checkUpkeep returned

ledgerVars == <<now, balance, nextMarketId, markets, yesPositions, noPositions,
                s_functionsSource, s_requestIdToMarketId, requests,
                requestCounter, totalPaid, winClaims, refundClaims>>
confVars == <<ruling, rubric, decision>>
trialVars == <<pc, stages, fetches, evidence, advocates, judge, transcript>>
txVars == <<log, frame, upkeep>>
engineVars == <<ruling, rubric, decision,
                pc, stages, fetches, evidence, advocates, judge, transcript,
                log, frame, upkeep>>
vars == <<now, balance, nextMarketId, markets, yesPositions, noPositions,
          s_functionsSource, s_requestIdToMarketId, requests,
          requestCounter, totalPaid, winClaims, refundClaims,
          ruling, rubric, decision,
          pc, stages, fetches, evidence, advocates, judge, transcript,
          log, frame, upkeep>>

\* ------------------------------------------------------------- helpers
\* the slots of the markets mapping the model keeps; ids are 0, 1, ...
MarketIds == DOMAIN markets

\* the zero value of a Market slot that createMarket has not written yet
EmptyMarket ==
    [deadline |-> 0, status |-> "Open", outcome |-> "None", yesPool |-> 0,
     noPool |-> 0, transcriptHash |-> ZeroHash, creator |-> "0x0",
     creationDeposit |-> 0]

\* keccak256 over a byte string: injective on the values the model uses
keccak256(bytes) == <<"keccak256", bytes>>

\* a require() that fails: the transaction reverts, nothing changes
Revert == UNCHANGED ledgerVars

RECURSIVE SumOver(_, _)
SumOver(f, S) ==
    IF S = {} THEN 0
    ELSE LET x == CHOOSE y \in S : TRUE IN f[x] + SumOver(f, S \ {x})

\* all ether staked so far, over all markets (bounded by MaxStake)
TotalStaked ==
    SumOver([m \in MarketIds |-> markets[m].yesPool + markets[m].noPool],
            MarketIds)

\* ---------------------------------------------------------------- Init
LedgerInit ==
    /\ now = 0
    /\ balance = 0
    /\ nextMarketId = 0
    /\ markets = [m \in 0 .. (MaxMarkets - 1) |-> EmptyMarket]
    /\ yesPositions = [m \in 0 .. (MaxMarkets - 1) |-> [u \in Users |-> 0]]
    /\ noPositions = [m \in 0 .. (MaxMarkets - 1) |-> [u \in Users |-> 0]]
    /\ s_functionsSource = 0
    /\ s_requestIdToMarketId = [r \in RequestIds |-> 0]
    /\ requests = [r \in RequestIds |-> "none"]
    /\ requestCounter = 0
    /\ totalPaid = [m \in 0 .. (MaxMarkets - 1) |-> 0]
    /\ winClaims = [m \in 0 .. (MaxMarkets - 1) |-> [u \in Users |-> 0]]
    /\ refundClaims = [m \in 0 .. (MaxMarkets - 1) |-> [u \in Users |-> 0]]

\* -------------------------------------------------------------- actions
\* time passes between blocks
Tick ==
    /\ now < MaxTime
    /\ now' = now + 1
    /\ UNCHANGED <<balance, nextMarketId, markets, yesPositions, noPositions,
                   s_functionsSource, s_requestIdToMarketId, requests,
                   requestCounter, totalPaid, winClaims, refundClaims>>

setFunctionsSourceResult(sender) ==
    IF sender # Owner THEN "OwnableUnauthorizedAccount" ELSE "ok"

setFunctionsSource(sender, len) ==
    IF setFunctionsSourceResult(sender) # "ok"
    THEN Revert
    ELSE /\ s_functionsSource' = len
         /\ UNCHANGED <<now, balance, nextMarketId, markets, yesPositions,
                        noPositions, s_requestIdToMarketId, requests,
                        requestCounter, totalPaid, winClaims, refundClaims>>

createMarketResult(deadline, value) ==
    IF ~(deadline > now) THEN "Deadline must be in the future"
    ELSE IF ~(value >= CREATION_DEPOSIT) THEN "Must deposit 0.01 ETH"
    ELSE "ok"

\* mutant: the new market is written over slot 0
createMarketOverwrite(sender, deadline, value) ==
    IF createMarketResult(deadline, value) # "ok"
    THEN Revert
    ELSE /\ nextMarketId \in MarketIds
         /\ nextMarketId' = nextMarketId + 1
         /\ markets' = [markets EXCEPT ![0] =
                [deadline |-> deadline, status |-> "Open", outcome |-> "None",
                 yesPool |-> 0, noPool |-> 0, transcriptHash |-> ZeroHash,
                 creator |-> sender, creationDeposit |-> value]]
         /\ balance' = balance + value
         /\ UNCHANGED <<now, yesPositions, noPositions, s_functionsSource,
                        s_requestIdToMarketId, requests, requestCounter,
                        totalPaid, winClaims, refundClaims>>

createMarket(sender, deadline, value) ==
    IF createMarketResult(deadline, value) # "ok"
    THEN Revert
    ELSE /\ nextMarketId \in MarketIds
         /\ nextMarketId' = nextMarketId + 1
         /\ markets' = [markets EXCEPT ![nextMarketId] =
                [deadline |-> deadline, status |-> "Open", outcome |-> "None",
                 yesPool |-> 0, noPool |-> 0, transcriptHash |-> ZeroHash,
                 creator |-> sender, creationDeposit |-> value]]
         /\ balance' = balance + value
         /\ UNCHANGED <<now, yesPositions, noPositions, s_functionsSource,
                        s_requestIdToMarketId, requests, requestCounter,
                        totalPaid, winClaims, refundClaims>>

takePositionResult(marketId, side, value) ==
    LET m == markets[marketId] IN
    IF m.status # "Open" THEN "Market not open"
    ELSE IF ~(now < m.deadline) THEN "Past deadline"
    ELSE IF ~(side = "Yes" \/ side = "No") THEN "Invalid side"
    ELSE IF ~(value > 0) THEN "Must send ETH"
    ELSE "ok"

\* mutant: a NO stake is added to the YES pool
takePositionWrongPool(sender, marketId, side, value) ==
    IF takePositionResult(marketId, side, value) # "ok"
    THEN Revert
    ELSE /\ TotalStaked + value <= MaxStake
         /\ IF side = "Yes"
            THEN /\ yesPositions' = [yesPositions EXCEPT
                        ![marketId][sender] = @ + value]
                 /\ UNCHANGED noPositions
            ELSE /\ noPositions' = [noPositions EXCEPT
                        ![marketId][sender] = @ + value]
                 /\ UNCHANGED yesPositions
         /\ markets' = [markets EXCEPT ![marketId].yesPool = @ + value]
         /\ balance' = balance + value
         /\ UNCHANGED <<now, nextMarketId, s_functionsSource,
                        s_requestIdToMarketId, requests, requestCounter,
                        totalPaid, winClaims, refundClaims>>

\* mutant: stakes are accepted after the deadline
takePositionAfterDeadline(sender, marketId, side, value) ==
    IF takePositionResult(marketId, side, value) \notin {"ok", "Past deadline"}
       \/ ~(side = "Yes" \/ side = "No") \/ ~(value > 0)
    THEN Revert
    ELSE /\ TotalStaked + value <= MaxStake
         /\ IF side = "Yes"
            THEN /\ yesPositions' = [yesPositions EXCEPT
                        ![marketId][sender] = @ + value]
                 /\ markets' = [markets EXCEPT ![marketId].yesPool = @ + value]
                 /\ UNCHANGED noPositions
            ELSE /\ noPositions' = [noPositions EXCEPT
                        ![marketId][sender] = @ + value]
                 /\ markets' = [markets EXCEPT ![marketId].noPool = @ + value]
                 /\ UNCHANGED yesPositions
         /\ balance' = balance + value
         /\ UNCHANGED <<now, nextMarketId, s_functionsSource,
                        s_requestIdToMarketId, requests, requestCounter,
                        totalPaid, winClaims, refundClaims>>

takePosition(sender, marketId, side, value) ==
    IF takePositionResult(marketId, side, value) # "ok"
    THEN Revert
    ELSE /\ TotalStaked + value <= MaxStake
         /\ IF side = "Yes"
            THEN /\ yesPositions' = [yesPositions EXCEPT
                        ![marketId][sender] = @ + value]
                 /\ markets' = [markets EXCEPT ![marketId].yesPool = @ + value]
                 /\ UNCHANGED noPositions
            ELSE /\ noPositions' = [noPositions EXCEPT
                        ![marketId][sender] = @ + value]
                 /\ markets' = [markets EXCEPT ![marketId].noPool = @ + value]
                 /\ UNCHANGED yesPositions
         /\ balance' = balance + value
         /\ UNCHANGED <<now, nextMarketId, s_functionsSource,
                        s_requestIdToMarketId, requests, requestCounter,
                        totalPaid, winClaims, refundClaims>>

requestSettlementResult(marketId) ==
    LET m == markets[marketId] IN
    IF m.status # "Open" THEN "Market not open"
    ELSE IF ~(now >= m.deadline) THEN "Deadline not reached"
    ELSE "ok"

\* mutant: the deadline is not looked at
requestSettlementEarly(sender, marketId) ==
    IF requestSettlementResult(marketId) \notin {"ok", "Deadline not reached"}
    THEN Revert
    ELSE /\ markets' = [markets EXCEPT ![marketId].status = "SettlementRequested"]
         /\ UNCHANGED <<now, balance, nextMarketId, yesPositions, noPositions,
                        s_functionsSource, s_requestIdToMarketId, requests,
                        requestCounter, totalPaid, winClaims, refundClaims>>

requestSettlement(sender, marketId) ==
    IF requestSettlementResult(marketId) # "ok"
    THEN Revert
    ELSE /\ markets' = [markets EXCEPT ![marketId].status = "SettlementRequested"]
         /\ UNCHANGED <<now, balance, nextMarketId, yesPositions, noPositions,
                        s_functionsSource, s_requestIdToMarketId, requests,
                        requestCounter, totalPaid, winClaims, refundClaims>>

\* mutant: the keeper's call writes the status without the checks of
\* requestSettlement
performUpkeepUnchecked(sender, performData) ==
    /\ markets' = [markets EXCEPT ![performData].status = "SettlementRequested"]
    /\ UNCHANGED <<now, balance, nextMarketId, yesPositions, noPositions,
                   s_functionsSource, s_requestIdToMarketId, requests,
                   requestCounter, totalPaid, winClaims, refundClaims>>

\* performData carries the market id; the body is a call of requestSettlement
performUpkeep(sender, performData) ==
    requestSettlement(sender, performData)

\* abi.encode(i) / abi.decode(performData, (uint256)): one 32-byte word
AbiEncode(i) == <<i>>
AbiDecode(performData) == performData[1]

\* the loop of checkUpkeep from index i on: the first market that is Open at or
\* past its deadline sets both return values and breaks; with no match the
\* return values keep their defaults (false, empty bytes)
RECURSIVE CheckUpkeepFrom(_)
CheckUpkeepFrom(i) ==
    IF ~(i < nextMarketId)
    THEN [upkeepNeeded |-> FALSE, performData |-> <<>>]
    ELSE IF markets[i].status = "Open" /\ now >= markets[i].deadline
         THEN [upkeepNeeded |-> TRUE, performData |-> AbiEncode(i)]
         ELSE CheckUpkeepFrom(i + 1)

RECURSIVE CheckUpkeepNoBreakFrom(_, _)
CheckUpkeepNoBreakFrom(i, found) ==
    IF ~(i < nextMarketId)
    THEN found
    ELSE IF markets[i].status = "Open" /\ now >= markets[i].deadline
         THEN CheckUpkeepNoBreakFrom(i + 1,
                [upkeepNeeded |-> TRUE, performData |-> AbiEncode(i)])
         ELSE CheckUpkeepNoBreakFrom(i + 1, found)

\* mutant: the loop does not break, so the last match is returned
checkUpkeepNoBreak ==
    CheckUpkeepNoBreakFrom(0, [upkeepNeeded |-> FALSE, performData |-> <<>>])

checkUpkeep == CheckUpkeepFrom(0)

sendTrialRequestResult(marketId) ==
    LET m == markets[marketId] IN
    IF m.status # "SettlementRequested" THEN "Settlement not requested"
    ELSE IF ~(s_functionsSource > 0) THEN "Functions source not set"
    ELSE "ok"

\* mutant: the request id is not mapped to the market
sendTrialRequestUnmapped(sender, marketId) ==
    IF sendTrialRequestResult(marketId) # "ok"
    THEN Revert
    ELSE /\ requestCounter < MaxRequests
         /\ requestCounter' = requestCounter + 1
         /\ requests' = [requests EXCEPT ![requestCounter + 1] = "pending"]
         /\ UNCHANGED <<now, balance, nextMarketId, markets, yesPositions,
                        noPositions, s_functionsSource, s_requestIdToMarketId,
                        totalPaid, winClaims, refundClaims>>

\* FunctionsClient._sendRequest -> router.sendRequest: allocates the next id
sendTrialRequest(sender, marketId) ==
    IF sendTrialRequestResult(marketId) # "ok"
    THEN Revert
    ELSE /\ requestCounter < MaxRequests
         /\ requestCounter' = requestCounter + 1
         /\ requests' = [requests EXCEPT ![requestCounter + 1] = "pending"]
         /\ s_requestIdToMarketId' =
                [s_requestIdToMarketId EXCEPT ![requestCounter + 1] = marketId]
         /\ UNCHANGED <<now, balance, nextMarketId, markets, yesPositions,
                        noPositions, s_functionsSource, totalPaid, winClaims,
                        refundClaims>>

\* the market written by the callback; response = <<action, verdict, scoreYes,
\* scoreNo>> or <<>> (no bytes), err = <<>> or the error bytes
FulfilledMarket(m, response, err) ==
    IF Len(err) > 0 \/ Len(response) = 0
    THEN [m EXCEPT !.status = "Escalated", !.transcriptHash = keccak256(err)]
    ELSE IF response[1] = 1
    THEN [m EXCEPT !.status = "Resolved",
                   !.outcome = IF response[2] = 1 THEN "Yes" ELSE "No",
                   !.transcriptHash = keccak256(response)]
    ELSE [m EXCEPT !.status = "Escalated",
                   !.transcriptHash = keccak256(response)]

simulateResponseResult(requestId) ==
    IF requests[requestId] = "none" THEN "Request not found"
    ELSE IF requests[requestId] = "fulfilled" THEN "Already fulfilled"
    ELSE "ok"

\* router.simulateResponse -> handleOracleFulfillment -> _fulfillRequest
fulfillRequest(requestId, response, err) ==
    LET marketId == s_requestIdToMarketId[requestId] IN
    IF simulateResponseResult(requestId) # "ok"
    THEN Revert
    ELSE /\ requests' = [requests EXCEPT ![requestId] = "fulfilled"]
         /\ markets' = [markets EXCEPT ![marketId] =
                            FulfilledMarket(markets[marketId], response, err)]
         /\ UNCHANGED <<now, balance, nextMarketId, yesPositions, noPositions,
                        s_functionsSource, s_requestIdToMarketId,
                        requestCounter, totalPaid, winClaims, refundClaims>>

settleResult(sender, marketId, outcome) ==
    LET m == markets[marketId] IN
    IF sender # Owner THEN "OwnableUnauthorizedAccount"
    ELSE IF m.status # "SettlementRequested" THEN "Settlement not requested"
    ELSE IF ~(outcome = "Yes" \/ outcome = "No") THEN "Invalid verdict"
    ELSE "ok"

\* mutant: settle does not look at the market's status
settleAnyStatus(sender, marketId, outcome, transcriptHash) ==
    IF settleResult(sender, marketId, outcome)
            \notin {"ok", "Settlement not requested"}
    THEN Revert
    ELSE /\ markets' = [markets EXCEPT ![marketId] =
                [@ EXCEPT !.status = "Resolved", !.outcome = outcome,
                          !.transcriptHash = transcriptHash]]
         /\ UNCHANGED <<now, balance, nextMarketId, yesPositions, noPositions,
                        s_functionsSource, s_requestIdToMarketId, requests,
                        requestCounter, totalPaid, winClaims, refundClaims>>

settle(sender, marketId, outcome, transcriptHash) ==
    IF settleResult(sender, marketId, outcome) # "ok"
    THEN Revert
    ELSE /\ markets' = [markets EXCEPT ![marketId] =
                [@ EXCEPT !.status = "Resolved", !.outcome = outcome,
                          !.transcriptHash = transcriptHash]]
         /\ UNCHANGED <<now, balance, nextMarketId, yesPositions, noPositions,
                        s_functionsSource, s_requestIdToMarketId, requests,
                        requestCounter, totalPaid, winClaims, refundClaims>>

escalateResult(sender, marketId) ==
    LET m == markets[marketId] IN
    IF sender # Owner THEN "OwnableUnauthorizedAccount"
    ELSE IF m.status # "SettlementRequested" THEN "Settlement not requested"
    ELSE "ok"

\* mutant: escalate without onlyOwner
escalateAnyone(sender, marketId, transcriptHash) ==
    IF escalateResult(Owner, marketId) # "ok"
    THEN Revert
    ELSE /\ markets' = [markets EXCEPT ![marketId] =
                [@ EXCEPT !.status = "Escalated",
                          !.transcriptHash = transcriptHash]]
         /\ UNCHANGED <<now, balance, nextMarketId, yesPositions, noPositions,
                        s_functionsSource, s_requestIdToMarketId, requests,
                        requestCounter, totalPaid, winClaims, refundClaims>>

escalate(sender, marketId, transcriptHash) ==
    IF escalateResult(sender, marketId) # "ok"
    THEN Revert
    ELSE /\ markets' = [markets EXCEPT ![marketId] =
                [@ EXCEPT !.status = "Escalated",
                          !.transcriptHash = transcriptHash]]
         /\ UNCHANGED <<now, balance, nextMarketId, yesPositions, noPositions,
                        s_functionsSource, s_requestIdToMarketId, requests,
                        requestCounter, totalPaid, winClaims, refundClaims>>

\* mutant: the stake plus the whole losing pool
PayoutWholeLosingPool(userPosition, totalPool, totalWinnerPool) ==
    userPosition + (totalPool - totalWinnerPool)

\* (userPosition * totalPool) / totalWinnerPool, integer division
Payout(userPosition, totalPool, totalWinnerPool) ==
    (userPosition * totalPool) \div totalWinnerPool

\* payable(msg.sender).call{value: amount}(""): fails when the contract holds
\* less than amount or when the recipient refuses the ether
Sent(amount, accepts) == accepts /\ amount <= balance

\* the position claimWinnings reads, and zeroes, for the caller
WinningPosition(marketId, sender) ==
    IF markets[marketId].outcome = "Yes"
    THEN yesPositions[marketId][sender]
    ELSE noPositions[marketId][sender]

WinnerPool(marketId) ==
    IF markets[marketId].outcome = "Yes"
    THEN markets[marketId].yesPool
    ELSE markets[marketId].noPool

claimWinningsResult(sender, marketId, accepts) ==
    LET m == markets[marketId]
        totalPool == m.yesPool + m.noPool
        userPosition == WinningPosition(marketId, sender)
        totalWinnerPool == WinnerPool(marketId)
    IN
    IF m.status # "Resolved" THEN "Market not resolved"
    ELSE IF ~(userPosition > 0) THEN "No winning position"
    ELSE IF ~(totalWinnerPool > 0) THEN "No winner pool"
    ELSE IF ~Sent(Payout(userPosition, totalPool, totalWinnerPool), accepts)
    THEN "Transfer failed"
    ELSE "ok"

\* mutant: the claimed position is taken out of the winning pool
claimWinningsShrinksPool(sender, marketId, accepts) ==
    LET m == markets[marketId]
        userPosition == WinningPosition(marketId, sender)
        payout == Payout(userPosition, m.yesPool + m.noPool,
                         WinnerPool(marketId))
    IN
    IF claimWinningsResult(sender, marketId, accepts) # "ok"
    THEN Revert
    ELSE /\ IF m.outcome = "Yes"
            THEN /\ yesPositions' = [yesPositions EXCEPT
                                        ![marketId][sender] = 0]
                 /\ markets' = [markets EXCEPT
                                    ![marketId].yesPool = @ - userPosition]
                 /\ UNCHANGED noPositions
            ELSE /\ noPositions' = [noPositions EXCEPT
                                        ![marketId][sender] = 0]
                 /\ markets' = [markets EXCEPT
                                    ![marketId].noPool = @ - userPosition]
                 /\ UNCHANGED yesPositions
         /\ balance' = balance - payout
         /\ totalPaid' = [totalPaid EXCEPT ![marketId] = @ + payout]
         /\ winClaims' = [winClaims EXCEPT ![marketId][sender] = @ + 1]
         /\ UNCHANGED <<now, nextMarketId, s_functionsSource,
                        s_requestIdToMarketId, requests, requestCounter,
                        refundClaims>>

claimWinnings(sender, marketId, accepts) ==
    LET m == markets[marketId]
        payout == Payout(WinningPosition(marketId, sender),
                         m.yesPool + m.noPool, WinnerPool(marketId))
    IN
    IF claimWinningsResult(sender, marketId, accepts) # "ok"
    THEN Revert
    ELSE /\ IF m.outcome = "Yes"
            THEN /\ yesPositions' = [yesPositions EXCEPT
                                        ![marketId][sender] = 0]
                 /\ UNCHANGED noPositions
            ELSE /\ noPositions' = [noPositions EXCEPT
                                        ![marketId][sender] = 0]
                 /\ UNCHANGED yesPositions
         /\ balance' = balance - payout
         /\ totalPaid' = [totalPaid EXCEPT ![marketId] = @ + payout]
         /\ winClaims' = [winClaims EXCEPT ![marketId][sender] = @ + 1]
         /\ UNCHANGED <<now, nextMarketId, markets, s_functionsSource,
                        s_requestIdToMarketId, requests, requestCounter,
                        refundClaims>>

RefundAmount(sender, marketId) ==
    yesPositions[marketId][sender] + noPositions[marketId][sender]

claimRefundResult(sender, marketId, accepts) ==
    IF markets[marketId].status # "Escalated" THEN "Market not escalated"
    ELSE IF ~(RefundAmount(sender, marketId) > 0) THEN "No position to refund"
    ELSE IF ~Sent(RefundAmount(sender, marketId), accepts) THEN "Transfer failed"
    ELSE "ok"

\* mutant: the NO position is paid back but not zeroed
claimRefundKeepsNo(sender, marketId, accepts) ==
    LET refund == RefundAmount(sender, marketId) IN
    IF claimRefundResult(sender, marketId, accepts) # "ok"
    THEN Revert
    ELSE /\ yesPositions' = [yesPositions EXCEPT ![marketId][sender] = 0]
         /\ UNCHANGED noPositions
         /\ balance' = balance - refund
         /\ totalPaid' = [totalPaid EXCEPT ![marketId] = @ + refund]
         /\ refundClaims' = [refundClaims EXCEPT ![marketId][sender] = @ + 1]
         /\ UNCHANGED <<now, nextMarketId, markets, s_functionsSource,
                        s_requestIdToMarketId, requests, requestCounter,
                        winClaims>>

claimRefund(sender, marketId, accepts) ==
    LET refund == RefundAmount(sender, marketId) IN
    IF claimRefundResult(sender, marketId, accepts) # "ok"
    THEN Revert
    ELSE /\ yesPositions' = [yesPositions EXCEPT ![marketId][sender] = 0]
         /\ noPositions' = [noPositions EXCEPT ![marketId][sender] = 0]
         /\ balance' = balance - refund
         /\ totalPaid' = [totalPaid EXCEPT ![marketId] = @ + refund]
         /\ refundClaims' = [refundClaims EXCEPT ![marketId][sender] = @ + 1]
         /\ UNCHANGED <<now, nextMarketId, markets, s_functionsSource,
                        s_requestIdToMarketId, requests, requestCounter,
                        winClaims>>

\* claimCreationDeposit(marketId): the creator takes the deposit back once the
\* market is settled. The Market struct has no flag for it, so the claim is
\* recorded by zeroing creationDeposit.
claimCreationDepositResult(sender, marketId, accepts) ==
    LET m == markets[marketId] IN
    IF sender # m.creator THEN "Not market creator"
    ELSE IF m.status \notin {"Resolved", "Escalated"} THEN "Market not settled"
    ELSE IF ~(m.creationDeposit > 0) THEN "Deposit already claimed"
    ELSE IF ~Sent(m.creationDeposit, accepts) THEN "Transfer failed"
    ELSE "ok"

\* mutant: the deposit is paid back but stays recorded
claimCreationDepositKeeps(sender, marketId, accepts) ==
    LET deposit == markets[marketId].creationDeposit IN
    IF claimCreationDepositResult(sender, marketId, accepts) # "ok"
    THEN Revert
    ELSE /\ balance' = balance - deposit
         /\ UNCHANGED <<now, nextMarketId, markets, yesPositions, noPositions,
                        s_functionsSource, s_requestIdToMarketId, requests,
                        requestCounter, totalPaid, winClaims, refundClaims>>

claimCreationDeposit(sender, marketId, accepts) ==
    LET deposit == markets[marketId].creationDeposit IN
    IF claimCreationDepositResult(sender, marketId, accepts) # "ok"
    THEN Revert
    ELSE /\ markets' = [markets EXCEPT ![marketId].creationDeposit = 0]
         /\ balance' = balance - deposit
         /\ UNCHANGED <<now, nextMarketId, yesPositions, noPositions,
                        s_functionsSource, s_requestIdToMarketId, requests,
                        requestCounter, totalPaid, winClaims, refundClaims>>

\* ---------------------------------------------------------------- events
\* the events a successful call emits (scores and strings are left out)
createMarketEmits(sender, deadline) ==
    <<[name |-> "MarketCreated", marketId |-> nextMarketId,
       creator |-> sender, deadline |-> deadline]>>

takePositionEmits(sender, marketId, side, value) ==
    <<[name |-> "PositionTaken", marketId |-> marketId,
       participant |-> sender, side |-> side, amount |-> value]>>

requestSettlementEmits(marketId) ==
    <<[name |-> "SettlementRequested", marketId |-> marketId,
       timestamp |-> now]>>

sendTrialRequestEmits(marketId) ==
    <<[name |-> "TrialRequested", marketId |-> marketId,
       requestId |-> requestCounter + 1]>>

fulfillRequestEmits(requestId, response, err) ==
    LET marketId == s_requestIdToMarketId[requestId] IN
    IF Len(err) > 0 \/ Len(response) = 0
    THEN <<[name |-> "MarketEscalated", marketId |-> marketId,
            transcriptHash |-> keccak256(err)]>>
    ELSE IF response[1] = 1
    THEN <<[name |-> "MarketResolved", marketId |-> marketId,
            outcome |-> IF response[2] = 1 THEN "Yes" ELSE "No",
            transcriptHash |-> keccak256(response)]>>
    ELSE <<[name |-> "MarketEscalated", marketId |-> marketId,
            transcriptHash |-> keccak256(response)]>>

settleEmits(marketId, outcome, transcriptHash) ==
    <<[name |-> "MarketResolved", marketId |-> marketId,
       outcome |-> outcome, transcriptHash |-> transcriptHash]>>

escalateEmits(marketId, transcriptHash) ==
    <<[name |-> "MarketEscalated", marketId |-> marketId,
       transcriptHash |-> transcriptHash]>>

\* claimWinnings has no emit statement
claimWinningsEmits(sender, marketId) == <<>>

claimRefundEmits(sender, marketId) ==
    <<[name |-> "RefundClaimed", marketId |-> marketId,
       participant |-> sender, amount |-> RefundAmount(sender, marketId)]>>

\* the log of a transaction: its events when it succeeds, nothing on a revert
Emit(result, events) == log' = IF result = "ok" THEN events ELSE <<>>

\* ------------------------------------------------- confidence evaluator
Null == "null"
NoDecision == [action |-> "none"]
HallucinationLists == {<<>>, <<"Fake citation">>,
                       <<"Fake citation", "Fake citation">>}
Rulings ==
    [finalVerdict : {"YES", "NO"}, scoreYes : 0 .. MaxScore,
     scoreNo : 0 .. MaxScore, hallucinationsDetected : HallucinationLists]
Rubrics == [confidenceThreshold : 0 .. MaxThreshold]

Abs(x) == IF x < 0 THEN -x ELSE x

\* mutant: hallucinations are looked at only when the margin is too narrow
evaluateConfidenceMarginFirst(r, rb) ==
    LET margin == Abs(r.scoreYes - r.scoreNo)
        hasHallucinations == Len(r.hallucinationsDetected) > 0
    IN
    IF margin < rb.confidenceThreshold
    THEN IF hasHallucinations
         THEN [action |-> "ESCALATE", verdict |-> Null, margin |-> margin,
               reason |-> <<"Hallucinations detected", r.hallucinationsDetected>>]
         ELSE [action |-> "ESCALATE", verdict |-> Null, margin |-> margin,
               reason |-> <<"below threshold", margin, rb.confidenceThreshold>>]
    ELSE [action |-> "RESOLVE", verdict |-> r.finalVerdict, margin |-> margin,
          reason |-> <<"exceeds threshold", margin, rb.confidenceThreshold,
                       r.finalVerdict>>]

\* mutant: the verdict is derived from the scores
evaluateConfidenceByScore(r, rb) ==
    LET margin == Abs(r.scoreYes - r.scoreNo)
        hasHallucinations == Len(r.hallucinationsDetected) > 0
        winner == IF r.scoreYes >= r.scoreNo THEN "YES" ELSE "NO"
    IN
    IF hasHallucinations
    THEN [action |-> "ESCALATE", verdict |-> Null, margin |-> margin,
          reason |-> <<"Hallucinations detected", r.hallucinationsDetected>>]
    ELSE IF margin < rb.confidenceThreshold
    THEN [action |-> "ESCALATE", verdict |-> Null, margin |-> margin,
          reason |-> <<"below threshold", margin, rb.confidenceThreshold>>]
    ELSE [action |-> "RESOLVE", verdict |-> winner, margin |-> margin,
          reason |-> <<"exceeds threshold", margin, rb.confidenceThreshold,
                       winner>>]

\* mutant: the margin must exceed the threshold (<= in place of <)
evaluateConfidenceInclusive(r, rb) ==
    LET margin == Abs(r.scoreYes - r.scoreNo)
        hasHallucinations == Len(r.hallucinationsDetected) > 0
    IN
    IF hasHallucinations
    THEN [action |-> "ESCALATE", verdict |-> Null, margin |-> margin,
          reason |-> <<"Hallucinations detected", r.hallucinationsDetected>>]
    ELSE IF margin <= rb.confidenceThreshold
    THEN [action |-> "ESCALATE", verdict |-> Null, margin |-> margin,
          reason |-> <<"below threshold", margin, rb.confidenceThreshold>>]
    ELSE [action |-> "RESOLVE", verdict |-> r.finalVerdict, margin |-> margin,
          reason |-> <<"exceeds threshold", margin, rb.confidenceThreshold,
                       r.finalVerdict>>]

\* mutant: a verdict that contradicts the scores is not trusted and escalates
evaluateConfidenceChecksVerdict(r, rb) ==
    LET margin == Abs(r.scoreYes - r.scoreNo)
        hasHallucinations == Len(r.hallucinationsDetected) > 0
        leader == IF r.scoreYes >= r.scoreNo THEN "YES" ELSE "NO"
    IN
    IF hasHallucinations
    THEN [action |-> "ESCALATE", verdict |-> Null, margin |-> margin,
          reason |-> <<"Hallucinations detected", r.hallucinationsDetected>>]
    ELSE IF margin < rb.confidenceThreshold \/ r.finalVerdict # leader
    THEN [action |-> "ESCALATE", verdict |-> Null, margin |-> margin,
          reason |-> <<"below threshold", margin, rb.confidenceThreshold>>]
    ELSE [action |-> "RESOLVE", verdict |-> r.finalVerdict, margin |-> margin,
          reason |-> <<"exceeds threshold", margin, rb.confidenceThreshold,
                       r.finalVerdict>>]

\* mutant: the margin is the winner's lead, negative when the named winner
\* has the lower score
evaluateConfidenceSignedMargin(r, rb) ==
    LET margin == IF r.finalVerdict = "YES" THEN r.scoreYes - r.scoreNo
                  ELSE r.scoreNo - r.scoreYes
        hasHallucinations == Len(r.hallucinationsDetected) > 0
    IN
    IF hasHallucinations
    THEN [action |-> "ESCALATE", verdict |-> Null, margin |-> margin,
          reason |-> <<"Hallucinations detected", r.hallucinationsDetected>>]
    ELSE IF margin < rb.confidenceThreshold
    THEN [action |-> "ESCALATE", verdict |-> Null, margin |-> margin,
          reason |-> <<"below threshold", margin, rb.confidenceThreshold>>]
    ELSE [action |-> "RESOLVE", verdict |-> r.finalVerdict, margin |-> margin,
          reason |-> <<"exceeds threshold", margin, rb.confidenceThreshold,
                       r.finalVerdict>>]

evaluateConfidence(r, rb) ==
    LET margin == Abs(r.scoreYes - r.scoreNo)
        hasHallucinations == Len(r.hallucinationsDetected) > 0
    IN
    IF hasHallucinations
    THEN [action |-> "ESCALATE", verdict |-> Null, margin |-> margin,
          reason |-> <<"Hallucinations detected", r.hallucinationsDetected>>]
    ELSE IF margin < rb.confidenceThreshold
    THEN [action |-> "ESCALATE", verdict |-> Null, margin |-> margin,
          reason |-> <<"below threshold", margin, rb.confidenceThreshold>>]
    ELSE [action |-> "RESOLVE", verdict |-> r.finalVerdict, margin |-> margin,
          reason |-> <<"exceeds threshold", margin, rb.confidenceThreshold,
                       r.finalVerdict>>]

ConfIdle ==
    /\ ruling = [finalVerdict |-> "YES", scoreYes |-> 0, scoreNo |-> 0,
                 hallucinationsDetected |-> <<>>]
    /\ rubric = [confidenceThreshold |-> 0]
    /\ decision = NoDecision

ConfInit ==
    /\ ruling \in Rulings
    /\ rubric \in Rubrics
    /\ decision = NoDecision

\* mutant: the evaluation empties the ruling's hallucination list
EvaluateConsuming ==
    /\ decision = NoDecision
    /\ decision' = evaluateConfidence(ruling, rubric)
    /\ ruling' = [ruling EXCEPT !.hallucinationsDetected = <<>>]
    /\ UNCHANGED <<rubric, ledgerVars, txVars, trialVars>>

Evaluate ==
    /\ decision = NoDecision
    /\ decision' = evaluateConfidence(ruling, rubric)
    /\ UNCHANGED <<ruling, rubric, ledgerVars, txVars, trialVars>>

\* ------------------------------------------------------- trial pipeline
\* runTrial: evidence sources, two advocates and a judge behind LLM clients.
\* A promise is "pending" until the event loop delivers its outcome; the code
\* between two awaits runs as one step.
Sides == {"YES", "NO"}
Question == "q1"
Criteria == <<"c1", "c2">>

\* what an LLMClient.call can deliver: a rejection, or a response whose content
\* is some text or the text of a JSON value
NoResponse == [kind |-> "none", content |-> <<>>]
CallRejects == [kind |-> "rejects", content |-> <<>>]
Content(c) == [kind |-> "content", content |-> c]

\* JSON.parse: the value, or a SyntaxError
JSONparse(content) ==
    IF content[1] = "json"
    THEN [ok |-> TRUE, value |-> content[2]]
    ELSE [ok |-> FALSE, value |-> <<>>]

CriterionArgument(c) ==
    [criterion |-> c, claim |-> "claim", evidenceCitations |-> <<>>,
     strength |-> 60]

\* the title of evidence item <<i, k>>
EvidenceTitle(item) ==
    IF item = <<1, 1>> THEN "Title 1.1"
    ELSE IF item = <<1, 2>> THEN "Title 1.2"
    ELSE IF item = <<2, 1>> THEN "Title 2.1"
    ELSE IF item = <<2, 2>> THEN "Title 2.2"
    ELSE "Title"

\* a CriterionArgument that cites evidence by title
CitingArgument(c, citations) ==
    [criterion |-> c, claim |-> "claim", evidenceCitations |-> citations,
     strength |-> 60]

OtherSide(side) == IF side = "YES" THEN "NO" ELSE "YES"

\* JSON values an advocate model may answer with
AdvocateObjects(side) ==
    { [side |-> side, confidence |-> 70, weaknessesInOpposingCase |-> <<>>,
       arguments |-> <<CriterionArgument("c1"), CriterionArgument("c2")>>],
      [side |-> OtherSide(side), confidence |-> 70,
       weaknessesInOpposingCase |-> <<>>,
       arguments |-> <<CriterionArgument("c1"), CriterionArgument("c2")>>],
      [side |-> side, confidence |-> 70, weaknessesInOpposingCase |-> <<>>,
       arguments |-> <<CitingArgument("c1", <<"Title 1.1">>),
                       CitingArgument("c2", <<"Fake citation">>)>>],
      [side |-> side, confidence |-> 70, weaknessesInOpposingCase |-> <<>>,
       arguments |-> <<CriterionArgument("c1")>>],
      [side |-> side, confidence |-> 70, weaknessesInOpposingCase |-> <<>>,
       arguments |-> <<CriterionArgument("c1"), CriterionArgument("zz")>>],
      [side |-> side, confidence |-> 101, weaknessesInOpposingCase |-> <<>>,
       arguments |-> <<CriterionArgument("c1"), CriterionArgument("c2")>>],
      [side |-> side, confidence |-> 70] }

AdvocateResponses(side) ==
    {CallRejects, Content(<<"text", "I cannot answer">>)}
        \cup {Content(<<"json", o>>) : o \in AdvocateObjects(side)}

\* z.object({side, confidence, arguments: z.array(z.object({criterion, claim,
\* evidenceCitations, strength})), weaknessesInOpposingCase}).parse succeeds
AdvocateArgumentSchema(parsed) ==
    /\ {"side", "confidence", "arguments", "weaknessesInOpposingCase"}
            \subseteq DOMAIN parsed
    /\ parsed.side \in Sides
    /\ parsed.confidence \in 0 .. 100
    /\ \A i \in DOMAIN parsed.arguments :
            /\ {"criterion", "claim", "evidenceCitations", "strength"}
                    \subseteq DOMAIN parsed.arguments[i]
            /\ parsed.arguments[i].strength \in 0 .. 100

\* JSON values a judge model may answer with
JudgeObjects ==
    { [finalVerdict |-> "YES", scoreYes |-> 8, scoreNo |-> 2,
       hallucinationsDetected |-> <<>>],
      [finalVerdict |-> "NO", scoreYes |-> 5, scoreNo |-> 4,
       hallucinationsDetected |-> <<>>],
      [finalVerdict |-> "NO", scoreYes |-> 3, scoreNo |-> 9,
       hallucinationsDetected |-> <<"Fake citation">>],
      [finalVerdict |-> "YES", scoreYes |-> 101, scoreNo |-> 2,
       hallucinationsDetected |-> <<>>],
      [finalVerdict |-> "YES"] }

JudgeResponses ==
    {CallRejects, Content(<<"text", "I cannot answer">>)}
        \cup {Content(<<"json", o>>) : o \in JudgeObjects}

JudgeRulingSchema(parsed) ==
    /\ {"finalVerdict", "scoreYes", "scoreNo", "hallucinationsDetected"}
            \subseteq DOMAIN parsed
    /\ parsed.finalVerdict \in {"YES", "NO"}
    /\ parsed.scoreYes \in 0 .. 100
    /\ parsed.scoreNo \in 0 .. 100

NoArgument == [side |-> "none"]
NoRuling == [finalVerdict |-> "none"]
NoRequest == [systemPrompt |-> <<>>, userPrompt |-> <<>>]
NoEvidence == [gathered |-> FALSE, questionId |-> Question, items |-> <<>>]
NoTranscript == [complete |-> FALSE]

buildAdvocateSystemPrompt(side) == <<"advocate", side>>
buildAdvocateUserPrompt(question, ev) == <<question, Criteria, ev.items>>
buildJudgeSystemPrompt == <<"judge">>
buildJudgeUserPrompt(question, ev, advocateYes, advocateNo) ==
    <<question, Criteria, ev.items, advocateYes, advocateNo>>

\* what a source's fetch can deliver: a rejection or a list of items; the
\* items of source i are pairs <<i, k>>
SourceValues(i) == {<<>>, << <<i, 1>> >>, << <<i, 1>>, <<i, 2>> >>}
SourceResults(i) ==
    {[status |-> "rejected", value |-> <<>>]}
        \cup {[status |-> "fulfilled", value |-> v] : v \in SourceValues(i)}

\* results.forEach: the values of the fulfilled results, in source order
RECURSIVE FulfilledItems(_)
FulfilledItems(results) ==
    IF Len(results) = 0 THEN <<>>
    ELSE (IF Head(results).status = "fulfilled" THEN Head(results).value
                                                 ELSE <<>>)
            \o FulfilledItems(Tail(results))

\* mutant: Promise.all in place of Promise.allSettled
gatherEvidenceAll(question, results) ==
    IF \E i \in DOMAIN results : results[i].status = "rejected"
    THEN [status |-> "rejected", bundle |-> NoEvidence]
    ELSE [status |-> "fulfilled",
          bundle |-> [gathered |-> TRUE, questionId |-> question,
                      items |-> FulfilledItems(results)]]

\* what the promise of gatherEvidence settles to, given the settled results
gatherEvidence(question, results) ==
    [status |-> "fulfilled",
     bundle |-> [gathered |-> TRUE, questionId |-> question,
                 items |-> FulfilledItems(results)]]

\* mutant: a response that is not JSON is replaced by an empty argument
runAdvocateDefault(side, response) ==
    IF response.kind = "rejects"
    THEN [status |-> "rejected", argument |-> NoArgument]
    ELSE LET parsed == JSONparse(response.content) IN
         IF ~parsed.ok
         THEN [status |-> "fulfilled",
               argument |-> [side |-> side, confidence |-> 0,
                             arguments |-> <<>>,
                             weaknessesInOpposingCase |-> <<>>]]
         ELSE IF ~AdvocateArgumentSchema(parsed.value)
         THEN [status |-> "rejected", argument |-> NoArgument]
         ELSE [status |-> "fulfilled", argument |-> parsed.value]

\* what the promise of runAdvocate settles to, given the outcome of the call
runAdvocate(side, response) ==
    IF response.kind = "rejects"
    THEN [status |-> "rejected", argument |-> NoArgument]
    ELSE LET parsed == JSONparse(response.content) IN
         IF ~parsed.ok
         THEN [status |-> "rejected", argument |-> NoArgument]
         ELSE IF ~AdvocateArgumentSchema(parsed.value)
         THEN [status |-> "rejected", argument |-> NoArgument]
         ELSE [status |-> "fulfilled", argument |-> parsed.value]

\* what the promise of runJudge settles to, given the outcome of the call
runJudge(response) ==
    IF response.kind = "rejects"
    THEN [status |-> "rejected", ruling |-> NoRuling]
    ELSE LET parsed == JSONparse(response.content) IN
         IF ~parsed.ok
         THEN [status |-> "rejected", ruling |-> NoRuling]
         ELSE IF ~JudgeRulingSchema(parsed.value)
         THEN [status |-> "rejected", ruling |-> NoRuling]
         ELSE [status |-> "fulfilled", ruling |-> parsed.value]

IdleAdvocate ==
    [status |-> "idle", request |-> NoRequest, response |-> NoResponse,
     argument |-> NoArgument]
IdleJudge ==
    [status |-> "idle", request |-> NoRequest, response |-> NoResponse,
     ruling |-> NoRuling]

\* no transaction has run and no claim is in progress
NoFrame == [active |-> FALSE]
\* the keeper holds no performData
NoUpkeep == [upkeepNeeded |-> FALSE, performData |-> <<>>]
TxIdle ==
    /\ log = <<>>
    /\ frame = NoFrame
    /\ upkeep = NoUpkeep

TrialIdle ==
    /\ TxIdle
    /\ pc = "start"
    /\ stages = <<>>
    /\ fetches = <<>>
    /\ evidence = NoEvidence
    /\ advocates = [sd \in Sides |-> IdleAdvocate]
    /\ judge = IdleJudge
    /\ transcript = NoTranscript

\* a trial about to start, with 0 .. MaxSources evidence sources
TrialInit ==
    /\ TxIdle
    /\ pc = "start"
    /\ stages = <<>>
    /\ fetches \in {[i \in 1 .. n |-> [status |-> "idle", value |-> <<>>]] :
                        n \in 0 .. MaxSources}
    /\ evidence = NoEvidence
    /\ advocates = [sd \in Sides |-> IdleAdvocate]
    /\ judge = IdleJudge
    /\ transcript = NoTranscript

\* runTrial up to its first await: gatherEvidence calls fetch on every source
StartTrial ==
    /\ pc = "start"
    /\ pc' = "evidence"
    /\ stages' = Append(stages, "evidence")
    /\ fetches' = [i \in DOMAIN fetches |->
                        [status |-> "pending", value |-> <<>>]]
    /\ UNCHANGED <<evidence, advocates, judge, transcript, confVars,
                   ledgerVars, txVars>>

\* the promise of one source's fetch settles
SourceSettles(i, result) ==
    /\ fetches[i].status = "pending"
    /\ fetches' = [fetches EXCEPT ![i] = result]
    /\ UNCHANGED <<pc, stages, evidence, advocates, judge, transcript,
                   confVars, ledgerVars, txVars>>

\* Promise.allSettled has settled: gatherEvidence builds the bundle and returns
EvidenceGathered ==
    /\ pc = "evidence"
    /\ \A i \in DOMAIN fetches : fetches[i].status \in {"fulfilled", "rejected"}
    /\ LET settled == gatherEvidence(Question, fetches) IN
       IF settled.status = "rejected"
       THEN /\ pc' = "rejected"
            /\ UNCHANGED evidence
       ELSE /\ pc' = "gathered"
            /\ evidence' = settled.bundle
    /\ UNCHANGED <<stages, fetches, advocates, judge, transcript, confVars,
                   ledgerVars, txVars>>

\* mutant: only the YES advocate is called
StartAdvocatesYesFirst ==
    /\ pc = "gathered"
    /\ pc' = "advocates"
    /\ stages' = Append(stages, "advocates")
    /\ advocates' = [advocates EXCEPT !["YES"] =
            [status |-> "called",
             request |-> [systemPrompt |-> buildAdvocateSystemPrompt("YES"),
                          userPrompt |->
                            buildAdvocateUserPrompt(Question, evidence)],
             response |-> NoResponse,
             argument |-> NoArgument]]
    /\ UNCHANGED <<fetches, evidence, judge, transcript, confVars, ledgerVars, txVars>>

\* runTrial after evidence: runAdvocatesPairInParallel calls runAdvocate for
\* YES and for NO, each running up to its await of llmClient.call
StartAdvocates ==
    /\ pc = "gathered"
    /\ pc' = "advocates"
    /\ stages' = Append(stages, "advocates")
    /\ advocates' = [sd \in Sides |->
            [status |-> "called",
             request |-> [systemPrompt |-> buildAdvocateSystemPrompt(sd),
                          userPrompt |->
                            buildAdvocateUserPrompt(Question, evidence)],
             response |-> NoResponse,
             argument |-> NoArgument]]
    /\ UNCHANGED <<fetches, evidence, judge, transcript, confVars, ledgerVars, txVars>>

\* the call of one advocate settles; runAdvocate parses and validates
AdvocateResponds(side, response) ==
    /\ advocates[side].status = "called"
    /\ LET settled == runAdvocate(side, response) IN
       advocates' = [advocates EXCEPT ![side] =
            [@ EXCEPT !.status = settled.status, !.response = response,
                      !.argument = settled.argument]]
    /\ UNCHANGED <<pc, stages, fetches, evidence, judge, transcript, confVars,
                   ledgerVars, txVars>>

\* mutant: the judge is called as soon as one advocate has answered
AdvocatesSettledRace ==
    /\ pc = "advocates"
    /\ \E sd \in Sides : advocates[sd].status \in {"fulfilled", "rejected"}
    /\ IF \E sd \in Sides : advocates[sd].status = "rejected"
       THEN /\ pc' = "rejected"
            /\ UNCHANGED <<stages, judge>>
       ELSE /\ pc' = "judge"
            /\ stages' = Append(stages, "judge")
            /\ judge' = [status |-> "called",
                  request |-> [systemPrompt |-> buildJudgeSystemPrompt,
                               userPrompt |-> buildJudgeUserPrompt(Question,
                                    evidence, advocates["YES"].argument,
                                    advocates["NO"].argument)],
                  response |-> NoResponse,
                  ruling |-> NoRuling]
    /\ UNCHANGED <<fetches, evidence, advocates, transcript, confVars,
                   ledgerVars, txVars>>

\* Promise.all settles: rejected as soon as one advocate is, fulfilled when
\* both are; runTrial then rejects, or goes on to call the judge
AdvocatesSettled ==
    /\ pc = "advocates"
    /\ \/ \E sd \in Sides : advocates[sd].status = "rejected"
       \/ \A sd \in Sides : advocates[sd].status = "fulfilled"
    /\ IF \E sd \in Sides : advocates[sd].status = "rejected"
       THEN /\ pc' = "rejected"
            /\ UNCHANGED <<stages, judge>>
       ELSE /\ pc' = "judge"
            /\ stages' = Append(stages, "judge")
            /\ judge' = [status |-> "called",
                  request |-> [systemPrompt |-> buildJudgeSystemPrompt,
                               userPrompt |-> buildJudgeUserPrompt(Question,
                                    evidence, advocates["YES"].argument,
                                    advocates["NO"].argument)],
                  response |-> NoResponse,
                  ruling |-> NoRuling]
    /\ UNCHANGED <<fetches, evidence, advocates, transcript, confVars,
                   ledgerVars, txVars>>

\* the judge's call settles; runJudge parses and validates
JudgeResponds(response) ==
    /\ judge.status = "called"
    /\ LET settled == runJudge(response) IN
       judge' = [judge EXCEPT !.status = settled.status,
                              !.response = response,
                              !.ruling = settled.ruling]
    /\ UNCHANGED <<pc, stages, fetches, evidence, advocates, transcript,
                   confVars, ledgerVars, txVars>>

\* runTrial after the judge: it rejects, or evaluates the confidence and
\* returns the transcript
JudgeSettled ==
    /\ pc = "judge"
    /\ judge.status \in {"fulfilled", "rejected"}
    /\ IF judge.status = "rejected"
       THEN /\ pc' = "rejected"
            /\ UNCHANGED <<stages, transcript, confVars>>
       ELSE /\ pc' = "done"
            /\ stages' = stages \o <<"decision", "complete">>
            /\ ruling' = judge.ruling
            /\ decision' = evaluateConfidence(judge.ruling, rubric)
            /\ transcript' =
                    [complete |-> TRUE, question |-> Question,
                     evidence |-> evidence,
                     advocateYes |-> advocates["YES"].argument,
                     advocateNo |-> advocates["NO"].argument,
                     judgeRuling |-> judge.ruling,
                     decision |-> evaluateConfidence(judge.ruling, rubric)]
            /\ UNCHANGED rubric
    /\ UNCHANGED <<fetches, evidence, advocates, judge, ledgerVars, txVars>>

\* ------------------------------------------- Chainlink Functions source
\* trial-source.js, step 4: the decision computed inside the DON
MaxSourceScore == 100
SourceThreshold == 20

\* Math.round(x || 0) on an integer score
RoundScore(x) == IF x = 0 THEN 0 ELSE x

\* mutant: the gate is margin <= threshold
trialSourceDecisionInclusive(r) ==
    LET scoreYes == RoundScore(r.scoreYes)
        scoreNo == RoundScore(r.scoreNo)
        margin == Abs(scoreYes - scoreNo)
        hallucinations == r.hallucinationsDetected
    IN
    IF Len(hallucinations) > 0 THEN [action |-> 2, verdict |-> 0]
    ELSE IF margin <= SourceThreshold THEN [action |-> 2, verdict |-> 0]
    ELSE [action |-> 1, verdict |-> IF r.finalVerdict = "YES" THEN 1 ELSE 2]

\* action: 1 = RESOLVE, 2 = ESCALATE; verdict: 1 = YES, 2 = NO, 0 = none
trialSourceDecision(r) ==
    LET scoreYes == RoundScore(r.scoreYes)
        scoreNo == RoundScore(r.scoreNo)
        margin == Abs(scoreYes - scoreNo)
        hallucinations == r.hallucinationsDetected
    IN
    IF Len(hallucinations) > 0 THEN [action |-> 2, verdict |-> 0]
    ELSE IF margin < SourceThreshold THEN [action |-> 2, verdict |-> 0]
    ELSE [action |-> 1, verdict |-> IF r.finalVerdict = "YES" THEN 1 ELSE 2]

\* ------------------------------------------------ off-chain settlement
\* POST /api/settle: the stored transcript's decision is turned into one call
\* of the contract, signed by the owner's key.

\* the contract's enum Verdict { None, Yes, No } read from a uint8
VerdictOfEnum(n) == IF n = 1 THEN "Yes" ELSE IF n = 2 THEN "No" ELSE "None"

\* keccak256(toUtf8Bytes(JSON.stringify(transcript)))
TranscriptHash(r, d) == keccak256(<<"transcript", r, d>>)

\* mutant: the handler does not branch on the action
settlerCallAlwaysSettles(d) ==
    [fn |-> "settle",
     outcome |-> VerdictOfEnum(IF d.verdict = "YES" THEN 1 ELSE 2)]

\* the call the handler issues for decision d: settler.settle, which passes
\* verdict === "YES" ? 1 : 2, or settler.escalate
settlerCall(d) ==
    IF d.action = "RESOLVE"
    THEN [fn |-> "settle",
          outcome |-> VerdictOfEnum(IF d.verdict = "YES" THEN 1 ELSE 2)]
    ELSE [fn |-> "escalate"]

\* the handler with a stored transcript: a call that reverts throws before
\* transcriptStore.delete
PostSettle(marketId) ==
    /\ decision # NoDecision
    /\ LET call == settlerCall(decision)
           hash == TranscriptHash(ruling, decision)
       IN
       IF call.fn = "settle"
       THEN /\ settle(Owner, marketId, call.outcome, hash)
            /\ Emit(settleResult(Owner, marketId, call.outcome),
                    settleEmits(marketId, call.outcome, hash))
            /\ decision' = IF settleResult(Owner, marketId, call.outcome)
                                = "ok"
                           THEN NoDecision ELSE decision
       ELSE /\ escalate(Owner, marketId, hash)
            /\ Emit(escalateResult(Owner, marketId),
                    escalateEmits(marketId, hash))
            /\ decision' = IF escalateResult(Owner, marketId) = "ok"
                           THEN NoDecision ELSE decision
    /\ UNCHANGED <<ruling, rubric, frame, upkeep, trialVars>>

\* ---------------------------------------------- claimWinnings, step by step
\* claimWinnings split at its external call: the body up to the transfer, the
\* code the recipient runs while it holds control, and the return of the call.
MaxReenter == 2

\* mutant: the position is not zeroed before the transfer
claimWinningsEnterKeeps(sender, marketId) ==
    LET m == markets[marketId]
        payout == Payout(WinningPosition(marketId, sender),
                         m.yesPool + m.noPool, WinnerPool(marketId))
    IN
    /\ ~frame.active
    /\ IF claimWinningsResult(sender, marketId, TRUE) # "ok"
       THEN Revert /\ UNCHANGED frame
       ELSE /\ balance' = balance - payout
            /\ frame' = [active |-> TRUE, sender |-> sender,
                         marketId |-> marketId, payout |-> payout,
                         yesPositions |-> yesPositions,
                         noPositions |-> noPositions, reentered |-> 0]
            /\ UNCHANGED <<now, nextMarketId, markets, yesPositions,
                           noPositions, s_functionsSource,
                           s_requestIdToMarketId, requests, requestCounter,
                           totalPaid, winClaims, refundClaims>>

\* nonReentrant is entered, the requires pass, the position is zeroed and the
\* call hands payout and control to msg.sender; a call that cannot be funded
\* fails without running the recipient
claimWinningsEnter(sender, marketId) ==
    LET m == markets[marketId]
        payout == Payout(WinningPosition(marketId, sender),
                         m.yesPool + m.noPool, WinnerPool(marketId))
    IN
    /\ ~frame.active
    /\ IF claimWinningsResult(sender, marketId, TRUE) # "ok"
       THEN Revert /\ UNCHANGED frame
       ELSE /\ IF m.outcome = "Yes"
               THEN /\ yesPositions' = [yesPositions EXCEPT
                                           ![marketId][sender] = 0]
                    /\ UNCHANGED noPositions
               ELSE /\ noPositions' = [noPositions EXCEPT
                                           ![marketId][sender] = 0]
                    /\ UNCHANGED yesPositions
            /\ balance' = balance - payout
            /\ frame' = [active |-> TRUE, sender |-> sender,
                         marketId |-> marketId, payout |-> payout,
                         yesPositions |-> yesPositions,
                         noPositions |-> noPositions, reentered |-> 0]
            /\ UNCHANGED <<now, nextMarketId, markets, s_functionsSource,
                           s_requestIdToMarketId, requests, requestCounter,
                           totalPaid, winClaims, refundClaims>>

\* what a claimWinnings(marketId) called now by sender returns: nonReentrant
\* rejects it while a claim is in its transfer
NestedClaimResult(sender, marketId) ==
    IF frame.active THEN "ReentrancyGuardReentrantCall"
    ELSE claimWinningsResult(sender, marketId, TRUE)

\* the recipient's receive() calls claimWinnings again; the nested call
\* reverts and the recipient goes on
Reenter(marketId) ==
    /\ frame.active
    /\ frame.reentered < MaxReenter
    /\ NestedClaimResult(frame.sender, marketId) # "ok"
    /\ frame' = [frame EXCEPT !.reentered = @ + 1]
    /\ UNCHANGED ledgerVars

\* mutant: a failed transfer gives the ether back and leaves the position
\* zeroed
TransferReturnsKeepsZero(sent) ==
    /\ frame.active
    /\ frame' = [active |-> FALSE, sent |-> sent]
    /\ IF sent
       THEN /\ totalPaid' = [totalPaid EXCEPT ![frame.marketId] =
                                @ + frame.payout]
            /\ winClaims' = [winClaims EXCEPT
                                ![frame.marketId][frame.sender] = @ + 1]
            /\ UNCHANGED <<now, balance, nextMarketId, markets, yesPositions,
                           noPositions, s_functionsSource,
                           s_requestIdToMarketId, requests, requestCounter,
                           refundClaims>>
       ELSE /\ balance' = balance + frame.payout
            /\ UNCHANGED <<now, nextMarketId, markets, yesPositions,
                           noPositions, s_functionsSource,
                           s_requestIdToMarketId, requests, requestCounter,
                           totalPaid, winClaims, refundClaims>>

\* the call returns: sent = true ends the claim, sent = false reverts it and
\* with it the zeroing and the transfer; the transaction's status stays
\* visible in its receipt
TransferReturns(sent) ==
    /\ frame.active
    /\ frame' = [active |-> FALSE, sent |-> sent]
    /\ IF sent
       THEN /\ totalPaid' = [totalPaid EXCEPT ![frame.marketId] =
                                @ + frame.payout]
            /\ winClaims' = [winClaims EXCEPT
                                ![frame.marketId][frame.sender] = @ + 1]
            /\ UNCHANGED <<now, balance, nextMarketId, markets, yesPositions,
                           noPositions, s_functionsSource,
                           s_requestIdToMarketId, requests, requestCounter,
                           refundClaims>>
       ELSE /\ yesPositions' = frame.yesPositions
            /\ noPositions' = frame.noPositions
            /\ balance' = balance + frame.payout
            /\ UNCHANGED <<now, nextMarketId, markets, s_functionsSource,
                           s_requestIdToMarketId, requests, requestCounter,
                           totalPaid, winClaims, refundClaims>>

\* ------------------------------------------------------- specifications
Responses == {<<>>, <<1, 1, 78, 45>>, <<1, 2, 40, 75>>, <<1, 0, 78, 45>>,
              <<2, 0, 52, 48>>, <<0, 1, 78, 45>>}
Errors == {<<>>, <<"API timeout">>}

Init == LedgerInit /\ ConfIdle /\ TrialIdle

Next ==
    \/ Tick /\ UNCHANGED engineVars
    \/ \E s \in Users, len \in {1} :
            setFunctionsSource(s, len) /\ UNCHANGED engineVars
    \/ \E s \in Creators, d \in 0 .. MaxTime, v \in DepositValues :
            createMarket(s, d, v) /\ UNCHANGED engineVars
    \/ \E s \in Stakers, m \in MarketIds, side \in Verdict, v \in Amounts :
            takePosition(s, m, side, v) /\ UNCHANGED engineVars
    \/ \E s \in Users, m \in MarketIds :
            requestSettlement(s, m) /\ UNCHANGED engineVars
    \/ \E s \in Users, m \in MarketIds :
            performUpkeep(s, m) /\ UNCHANGED engineVars
    \/ \E s \in Users, m \in MarketIds :
            sendTrialRequest(s, m) /\ UNCHANGED engineVars
    \/ \E r \in RequestIds, resp \in Responses, err \in Errors :
            fulfillRequest(r, resp, err) /\ UNCHANGED engineVars
    \/ \E s \in Users, m \in MarketIds, o \in Verdict, h \in Hashes :
            settle(s, m, o, h) /\ UNCHANGED engineVars
    \/ \E s \in Users, m \in MarketIds, h \in Hashes :
            escalate(s, m, h) /\ UNCHANGED engineVars
    \/ \E s \in Stakers, m \in MarketIds, acc \in BOOLEAN :
            claimWinnings(s, m, acc) /\ UNCHANGED engineVars
    \/ \E s \in Stakers, m \in MarketIds, acc \in BOOLEAN :
            claimRefund(s, m, acc) /\ UNCHANGED engineVars

Spec == Init /\ [][Next]_vars

ConfSpecInit == LedgerInit /\ ConfInit /\ TrialIdle
ConfNext == Evaluate
ConfSpec == ConfSpecInit /\ [][ConfNext]_vars

\* the ledger with room for MaxRegistry markets: creation, staking and the
\* request for settlement
RegistryInit ==
    /\ now = 0
    /\ balance = 0
    /\ nextMarketId = 0
    /\ markets = [m \in 0 .. (MaxRegistry - 1) |-> EmptyMarket]
    /\ yesPositions = [m \in 0 .. (MaxRegistry - 1) |-> [u \in Users |-> 0]]
    /\ noPositions = [m \in 0 .. (MaxRegistry - 1) |-> [u \in Users |-> 0]]
    /\ s_functionsSource = 0
    /\ s_requestIdToMarketId = [r \in RequestIds |-> 0]
    /\ requests = [r \in RequestIds |-> "none"]
    /\ requestCounter = 0
    /\ totalPaid = [m \in 0 .. (MaxRegistry - 1) |-> 0]
    /\ winClaims = [m \in 0 .. (MaxRegistry - 1) |-> [u \in Users |-> 0]]
    /\ refundClaims = [m \in 0 .. (MaxRegistry - 1) |-> [u \in Users |-> 0]]
    /\ ConfIdle
    /\ TrialIdle

RegistryNext ==
    \/ Tick /\ UNCHANGED engineVars
    \/ \E s \in Users, d \in 0 .. MaxTime, v \in DepositValues :
            createMarket(s, d, v) /\ UNCHANGED engineVars
    \/ \E s \in Stakers, m \in MarketIds, side \in Verdict, v \in Amounts :
            takePosition(s, m, side, v) /\ UNCHANGED engineVars
    \/ \E s \in Users, m \in MarketIds :
            requestSettlement(s, m) /\ UNCHANGED engineVars

RegistrySpec == RegistryInit /\ [][RegistryNext]_vars

\* one run of runTrial on a question whose rubric has threshold 3
TrialRubrics == {rb \in Rubrics : rb.confidenceThreshold = 3}

TrialSpecInit ==
    /\ LedgerInit
    /\ ruling = [finalVerdict |-> "YES", scoreYes |-> 0, scoreNo |-> 0,
                 hallucinationsDetected |-> <<>>]
    /\ rubric \in TrialRubrics
    /\ decision = NoDecision
    /\ TrialInit

TrialNext ==
    \/ StartTrial
    \/ \E i \in DOMAIN fetches : \E result \in SourceResults(i) :
            SourceSettles(i, result)
    \/ EvidenceGathered
    \/ StartAdvocates
    \/ \E sd \in Sides : \E response \in AdvocateResponses(sd) :
            AdvocateResponds(sd, response)
    \/ AdvocatesSettled
    \/ \E response \in JudgeResponses : JudgeResponds(response)
    \/ JudgeSettled

TrialSpec == TrialSpecInit /\ [][TrialNext]_vars

\* the ledger of Spec with the events of every transaction
EventInit == LedgerInit /\ ConfIdle /\ TrialIdle

EventNext ==
    \/ Tick /\ log' = <<>> /\ UNCHANGED <<frame, upkeep, confVars, trialVars>>
    \/ \E s \in {Owner}, len \in {1} :
            /\ setFunctionsSource(s, len)
            /\ Emit(setFunctionsSourceResult(s), <<>>)
            /\ UNCHANGED <<frame, upkeep, confVars, trialVars>>
    \/ \E s \in Creators, d \in 0 .. MaxTime, v \in DepositValues :
            /\ createMarket(s, d, v)
            /\ Emit(createMarketResult(d, v), createMarketEmits(s, d))
            /\ UNCHANGED <<frame, upkeep, confVars, trialVars>>
    \/ \E s \in Stakers, m \in MarketIds, side \in Verdict, v \in Amounts :
            /\ takePosition(s, m, side, v)
            /\ Emit(takePositionResult(m, side, v),
                    takePositionEmits(s, m, side, v))
            /\ UNCHANGED <<frame, upkeep, confVars, trialVars>>
    \/ \E s \in Creators, m \in MarketIds :
            /\ requestSettlement(s, m)
            /\ Emit(requestSettlementResult(m), requestSettlementEmits(m))
            /\ UNCHANGED <<frame, upkeep, confVars, trialVars>>
    \/ \E s \in Creators, m \in MarketIds :
            /\ sendTrialRequest(s, m)
            /\ Emit(sendTrialRequestResult(m), sendTrialRequestEmits(m))
            /\ UNCHANGED <<frame, upkeep, confVars, trialVars>>
    \/ \E r \in RequestIds, resp \in Responses, err \in Errors :
            /\ fulfillRequest(r, resp, err)
            /\ Emit(simulateResponseResult(r),
                    fulfillRequestEmits(r, resp, err))
            /\ UNCHANGED <<frame, upkeep, confVars, trialVars>>
    \/ \E s \in {Owner}, m \in MarketIds, o \in Verdict, h \in Hashes :
            /\ settle(s, m, o, h)
            /\ Emit(settleResult(s, m, o), settleEmits(m, o, h))
            /\ UNCHANGED <<frame, upkeep, confVars, trialVars>>
    \/ \E s \in {Owner}, m \in MarketIds, h \in Hashes :
            /\ escalate(s, m, h)
            /\ Emit(escalateResult(s, m), escalateEmits(m, h))
            /\ UNCHANGED <<frame, upkeep, confVars, trialVars>>
    \/ \E s \in Stakers, m \in MarketIds, acc \in BOOLEAN :
            /\ claimWinnings(s, m, acc)
            /\ Emit(claimWinningsResult(s, m, acc), claimWinningsEmits(s, m))
            /\ UNCHANGED <<frame, upkeep, confVars, trialVars>>
    \/ \E s \in Stakers, m \in MarketIds, acc \in BOOLEAN :
            /\ claimRefund(s, m, acc)
            /\ Emit(claimRefundResult(s, m, acc), claimRefundEmits(s, m))
            /\ UNCHANGED <<frame, upkeep, confVars, trialVars>>

EventSpec == EventInit /\ [][EventNext]_vars

\* the ledger without the Functions path, with deposits above the minimum and
\* the creator's claim of the deposit
Deposits == 0 .. (CREATION_DEPOSIT + 1)

DepositInit == LedgerInit /\ ConfIdle /\ TrialIdle

DepositNext ==
    \/ Tick /\ UNCHANGED engineVars
    \/ \E s \in Creators, d \in 0 .. MaxTime, v \in Deposits :
            createMarket(s, d, v) /\ UNCHANGED engineVars
    \/ \E s \in Stakers, m \in MarketIds, side \in Verdict, v \in Amounts :
            takePosition(s, m, side, v) /\ UNCHANGED engineVars
    \/ \E s \in Users, m \in MarketIds :
            requestSettlement(s, m) /\ UNCHANGED engineVars
    \/ \E s \in Users, m \in MarketIds, o \in Verdict, h \in Hashes :
            settle(s, m, o, h) /\ UNCHANGED engineVars
    \/ \E s \in Users, m \in MarketIds, h \in Hashes :
            escalate(s, m, h) /\ UNCHANGED engineVars
    \/ \E s \in Stakers, m \in MarketIds, acc \in BOOLEAN :
            claimWinnings(s, m, acc) /\ UNCHANGED engineVars
    \/ \E s \in Stakers, m \in MarketIds, acc \in BOOLEAN :
            claimRefund(s, m, acc) /\ UNCHANGED engineVars
    \/ \E s \in Users, m \in MarketIds, acc \in BOOLEAN :
            claimCreationDeposit(s, m, acc) /\ UNCHANGED engineVars

DepositSpec == DepositInit /\ [][DepositNext]_vars

\* the ledger with claimWinnings split at its transfer; transactions are
\* atomic, so nothing else runs while the recipient holds control
ReentryInit == LedgerInit /\ ConfIdle /\ TrialIdle

ReentryNext ==
    \/ ~frame.active /\ Tick /\ UNCHANGED engineVars
    \/ \E s \in Creators, d \in 0 .. MaxTime, v \in DepositValues :
            ~frame.active /\ createMarket(s, d, v) /\ UNCHANGED engineVars
    \/ \E s \in Stakers, m \in MarketIds, side \in Verdict, v \in Amounts :
            ~frame.active /\ takePosition(s, m, side, v)
                /\ UNCHANGED engineVars
    \/ \E s \in Creators, m \in MarketIds :
            ~frame.active /\ requestSettlement(s, m) /\ UNCHANGED engineVars
    \/ \E s \in Users, m \in MarketIds, o \in Verdict, h \in Hashes :
            ~frame.active /\ settle(s, m, o, h) /\ UNCHANGED engineVars
    \/ \E s \in Users, m \in MarketIds, h \in Hashes :
            ~frame.active /\ escalate(s, m, h) /\ UNCHANGED engineVars
    \/ \E s \in Stakers, m \in MarketIds, acc \in BOOLEAN :
            ~frame.active /\ claimRefund(s, m, acc) /\ UNCHANGED engineVars
    \/ \E s \in Stakers, m \in MarketIds :
            claimWinningsEnter(s, m)
                /\ UNCHANGED <<log, upkeep, confVars, trialVars>>
    \/ \E m \in MarketIds :
            Reenter(m) /\ UNCHANGED <<log, upkeep, confVars, trialVars>>
    \/ \E sent \in BOOLEAN :
            TransferReturns(sent) /\ UNCHANGED <<log, upkeep, confVars, trialVars>>

ReentrySpec == ReentryInit /\ [][ReentryNext]_vars

\* two markets side by side through their whole life, with one-unit stakes
PairResponses == {<<1, 1, 78, 45>>}

PairNext ==
    \/ Tick /\ UNCHANGED engineVars
    \/ \E s \in {Owner}, len \in {1} :
            setFunctionsSource(s, len) /\ UNCHANGED engineVars
    \/ \E s \in Creators, d \in {1}, v \in {CREATION_DEPOSIT} :
            createMarket(s, d, v) /\ UNCHANGED engineVars
    \/ \E s \in Creators, m \in MarketIds, side \in {"Yes", "No"}, v \in {1} :
            takePosition(s, m, side, v) /\ UNCHANGED engineVars
    \/ \E s \in Creators, m \in MarketIds :
            requestSettlement(s, m) /\ UNCHANGED engineVars
    \/ \E s \in Creators, m \in MarketIds :
            sendTrialRequest(s, m) /\ UNCHANGED engineVars
    \/ \E r \in RequestIds, resp \in PairResponses, err \in Errors :
            fulfillRequest(r, resp, err) /\ UNCHANGED engineVars
    \/ \E s \in {Owner}, m \in MarketIds, o \in {"No"}, h \in {<<"h1">>} :
            settle(s, m, o, h) /\ UNCHANGED engineVars
    \/ \E s \in {Owner}, m \in MarketIds, h \in {<<"h2">>} :
            escalate(s, m, h) /\ UNCHANGED engineVars
    \/ \E s \in Creators, m \in MarketIds, acc \in {TRUE} :
            claimWinnings(s, m, acc) /\ UNCHANGED engineVars
    \/ \E s \in Creators, m \in MarketIds, acc \in {TRUE} :
            claimRefund(s, m, acc) /\ UNCHANGED engineVars

PairSpec == RegistryInit /\ [][PairNext]_vars

\* one market, a stored trial decision and the settlement handler
SettlerRulings ==
    {r \in Rulings : r.scoreYes \in {2, 8} /\ r.scoreNo \in {2, 8}
                     /\ Len(r.hallucinationsDetected) <= 1}

SettlerInit ==
    /\ LedgerInit
    /\ ruling \in SettlerRulings
    /\ rubric \in TrialRubrics
    /\ decision = NoDecision
    /\ TrialIdle

SettlerNext ==
    \/ Tick /\ UNCHANGED engineVars
    \/ \E s \in Creators, d \in 0 .. MaxTime, v \in DepositValues :
            createMarket(s, d, v) /\ UNCHANGED engineVars
    \/ \E s \in Stakers, m \in MarketIds, side \in Verdict, v \in Amounts :
            takePosition(s, m, side, v) /\ UNCHANGED engineVars
    \/ \E s \in Creators, m \in MarketIds :
            requestSettlement(s, m) /\ UNCHANGED engineVars
    \/ Evaluate
    \/ \E m \in MarketIds : PostSettle(m)

SettlerSpec == SettlerInit /\ [][SettlerNext]_vars

\* evaluateConfidence on the rulings and the threshold of the Functions source
SourceRulings ==
    [finalVerdict : {"YES", "NO"}, scoreYes : 0 .. MaxSourceScore,
     scoreNo : 0 .. MaxSourceScore, hallucinationsDetected : HallucinationLists]

SourceInit ==
    /\ LedgerInit
    /\ ruling \in SourceRulings
    /\ rubric = [confidenceThreshold |-> SourceThreshold]
    /\ decision = NoDecision
    /\ TrialIdle

SourceNext == Evaluate

SourceSpec == SourceInit /\ [][SourceNext]_vars

\* the Automation keeper: it simulates checkUpkeep off-chain and, when upkeep
\* is needed, sends performUpkeep with the returned performData; other
\* transactions can land between the two
KeeperChecks ==
    /\ ~upkeep.upkeepNeeded
    /\ upkeep' = checkUpkeep
    /\ UNCHANGED <<ledgerVars, confVars, trialVars, log, frame>>

KeeperPerforms ==
    /\ upkeep.upkeepNeeded
    /\ \E s \in Creators : performUpkeep(s, AbiDecode(upkeep.performData))
    /\ upkeep' = NoUpkeep
    /\ UNCHANGED <<confVars, trialVars, log, frame>>

KeeperNext ==
    \/ Tick /\ UNCHANGED engineVars
    \/ \E s \in Creators, d \in 0 .. MaxTime, v \in DepositValues :
            createMarket(s, d, v) /\ UNCHANGED engineVars
    \/ \E s \in Stakers, m \in MarketIds, side \in Verdict, v \in Amounts :
            takePosition(s, m, side, v) /\ UNCHANGED engineVars
    \/ \E s \in Users, m \in MarketIds :
            requestSettlement(s, m) /\ UNCHANGED engineVars
    \/ KeeperChecks
    \/ KeeperPerforms

\* the keeper's two steps are taken whenever they stay possible
KeeperSpec ==
    /\ RegistryInit
    /\ [][KeeperNext]_vars
    /\ WF_vars(KeeperChecks)
    /\ WF_vars(KeeperPerforms)

TypeOK ==
    /\ now \in 0 .. MaxTime
    /\ nextMarketId \in 0 .. Cardinality(MarketIds)
    /\ \A m \in MarketIds : markets[m].status \in MarketStatus
    /\ \A m \in MarketIds : markets[m].outcome \in Verdict

\* ------------------------------------------------------------ claims
\* a market exists once createMarket has allocated its id
Allocated(m) == m < nextMarketId

StatusEdges ==
    {<<"Open", "SettlementRequested">>, <<"SettlementRequested", "Resolved">>,
     <<"SettlementRequested", "Escalated">>}

\* C1: in every step the status of every market stays as it is or moves along
\* Open -> SettlementRequested, SettlementRequested -> Resolved or
\* SettlementRequested -> Escalated.
C1_StatusEdgesOnly ==
    [][\A m \in MarketIds : Allocated(m) =>
         \/ markets'[m].status = markets[m].status
         \/ <<markets[m].status, markets'[m].status>> \in StatusEdges]_vars

\* C2: once a market is Resolved or Escalated no step changes its outcome or
\* its transcriptHash.
C2_SettlementOneShot ==
    [][\A m \in MarketIds :
         (Allocated(m) /\ markets[m].status \in {"Resolved", "Escalated"}) =>
            /\ markets'[m].outcome = markets[m].outcome
            /\ markets'[m].transcriptHash = markets[m].transcriptHash]_vars

\* C3: no participant is paid by claimWinnings more than once for a market: a
\* claimWinnings succeeds exactly when it raises winClaims, so after one
\* successful claim every later one must be rejected.
C3_NoDoublePayout ==
    \A m \in MarketIds, u \in Users : winClaims[m][u] <= 1

\* C4: a step that pays a refund happens in an Escalated market, transfers
\* exactly the caller's YES position plus NO position and zeroes both; no
\* participant is refunded twice; after a refund a further claimRefund is
\* rejected with "No position to refund", and claimRefund is rejected with
\* "Market not escalated" in every market that is not Escalated.
C4_RefundStep ==
    \A m \in MarketIds, u \in Users :
        refundClaims'[m][u] # refundClaims[m][u] =>
            /\ markets[m].status = "Escalated"
            /\ balance - balance' = yesPositions[m][u] + noPositions[m][u]
            /\ totalPaid'[m] - totalPaid[m] = balance - balance'
            /\ balance - balance' > 0
            /\ yesPositions'[m][u] = 0
            /\ noPositions'[m][u] = 0

C4_RefundState ==
    \A m \in MarketIds, u \in Users, acc \in BOOLEAN :
        /\ refundClaims[m][u] <= 1
        /\ markets[m].status # "Escalated" =>
                claimRefundResult(u, m, acc) = "Market not escalated"
        /\ (markets[m].status = "Escalated" /\ refundClaims[m][u] >= 1) =>
                claimRefundResult(u, m, acc) = "No position to refund"

C5_Conservation ==
    \A m \in MarketIds :
        markets[m].status = "Resolved" =>
            totalPaid[m] <= markets[m].yesPool + markets[m].noPool

\* C6: before settlement each pool equals the sum of the positions on its
\* side, and a stake adds the ether sent to the position the caller already
\* holds on that side.
C6_PoolsState ==
    \A m \in MarketIds :
        markets[m].status \in {"Open", "SettlementRequested"} =>
            /\ markets[m].yesPool = SumOver(yesPositions[m], Users)
            /\ markets[m].noPool = SumOver(noPositions[m], Users)

C6_StakeStep ==
    \A m \in MarketIds, u \in Users :
        /\ yesPositions'[m][u] > yesPositions[m][u] =>
                yesPositions'[m][u] = yesPositions[m][u] + (balance' - balance)
        /\ noPositions'[m][u] > noPositions[m][u] =>
                noPositions'[m][u] = noPositions[m][u] + (balance' - balance)

C6_PoolsEqualPositions == []C6_PoolsState /\ [][C6_StakeStep]_vars

\* C6 witness: before settlement alice holds a YES position larger than any
\* single stake (so it was built by repeated stakes) and bob holds a NO position.
C6_Witness ==
    \E m \in MarketIds :
        /\ markets[m].status = "SettlementRequested"
        /\ yesPositions[m]["alice"] > MaxAmount
        /\ markets[m].yesPool = yesPositions[m]["alice"]

\* C7: a step that pays winnings happens in a Resolved market and transfers
\* exactly s * (yesPool + noPool) / winningPool, s being the caller's position
\* on the side the outcome names; a caller without a position on that side is
\* rejected with "No winning position".
C7_PayoutStep ==
    \A m \in MarketIds, u \in Users :
        winClaims'[m][u] # winClaims[m][u] =>
            LET yes == markets[m].outcome = "Yes"
                s == IF yes THEN yesPositions[m][u] ELSE noPositions[m][u]
                w == IF yes THEN markets[m].yesPool ELSE markets[m].noPool
                p == markets[m].yesPool + markets[m].noPool
            IN  /\ markets[m].status = "Resolved"
                /\ markets[m].outcome \in {"Yes", "No"}
                /\ s > 0
                /\ balance - balance' = (s * p) \div w
                /\ totalPaid'[m] - totalPaid[m] = (s * p) \div w

C7_LoserState ==
    \A m \in MarketIds, u \in Users, acc \in BOOLEAN :
        LET s == IF markets[m].outcome = "Yes" THEN yesPositions[m][u]
                                              ELSE noPositions[m][u]
        IN (markets[m].status = "Resolved" /\ s = 0) =>
                claimWinningsResult(u, m, acc) = "No winning position"

C7_ProportionalPayout == [][C7_PayoutStep]_vars /\ []C7_LoserState

\* C7 witness: YES won with pools 2 and 1; alice, holding 1 of the 2 YES units,
\* has been paid 1 (3/2 rounded down) and now holds no winning position, while
\* bob's YES unit is still unclaimed.
C7_Witness ==
    \E m \in MarketIds :
        /\ markets[m].status = "Resolved" /\ markets[m].outcome = "Yes"
        /\ markets[m].yesPool = 2 /\ markets[m].noPool = 1
        /\ winClaims[m]["alice"] = 1
        /\ totalPaid[m] = 1
        /\ yesPositions[m]["alice"] = 0
        /\ yesPositions[m]["bob"] = 1

\* C8: a ruling with a non-empty hallucinationsDetected is always decided
\* ESCALATE with verdict null, whatever the scores and the threshold.
C8_HallucinationsEscalate ==
    (decision # NoDecision /\ ruling.hallucinationsDetected # <<>>) =>
        /\ decision.action = "ESCALATE"
        /\ decision.verdict = Null

\* C8 witness: a decision on a ruling with a fabricated citation whose margin
\* reaches the threshold.
C8_Witness ==
    /\ decision # NoDecision
    /\ ruling.hallucinationsDetected # <<>>
    /\ ruling.scoreYes - ruling.scoreNo > rubric.confidenceThreshold
    /\ rubric.confidenceThreshold > 0

C11_RejectState ==
    \A m \in MarketIds, s \in Users, o \in Verdict :
        /\ settleResult(s, m, o) = "ok" =>
                markets[m].status = "SettlementRequested"
        /\ escalateResult(s, m) = "ok" =>
                markets[m].status = "SettlementRequested"
        /\ markets[m].status # "SettlementRequested" =>
                /\ settleResult(Owner, m, o) = "Settlement not requested"
                /\ escalateResult(Owner, m) = "Settlement not requested"

\* status, outcome or transcriptHash of market m differ after the step
SettlementChanged(m) ==
    \/ markets'[m].status # markets[m].status
    \/ markets'[m].outcome # markets[m].outcome
    \/ markets'[m].transcriptHash # markets[m].transcriptHash

\* a step that is a successful settle writes the arguments (C11_RejectState
\* says a call succeeds in a SettlementRequested market only); no step that
\* changes the settlement of m is a rejected settle on m
C11_SettleStep ==
    \A m \in MarketIds :
        /\ markets[m].status = "SettlementRequested" =>
             \A s \in Users, o \in Verdict, h \in Hashes :
                (settleResult(s, m, o) = "ok" /\ settle(s, m, o, h)) =>
                    /\ markets'[m].status = "Resolved"
                    /\ markets'[m].outcome = o
                    /\ markets'[m].transcriptHash = h
        /\ SettlementChanged(m) =>
             \A s \in Users, o \in Verdict, h \in Hashes :
                settleResult(s, m, o) # "ok" => ~settle(s, m, o, h)

C11_EscalateStep ==
    \A m \in MarketIds :
        /\ markets[m].status = "SettlementRequested" =>
             \A s \in Users, h \in Hashes :
                (escalateResult(s, m) = "ok" /\ escalate(s, m, h)) =>
                    /\ markets'[m].status = "Escalated"
                    /\ markets'[m].outcome = markets[m].outcome
                    /\ markets'[m].transcriptHash = h
        /\ SettlementChanged(m) =>
             \A s \in Users, h \in Hashes :
                escalateResult(s, m) # "ok" => ~escalate(s, m, h)

C11_SettleEscalateGuard ==
    []C11_RejectState /\ [][C11_SettleStep /\ C11_EscalateStep]_vars

\* C11 witness: the owner settled a market YES with hash h2; a further settle
\* or escalate on it is now rejected.
C11_Witness ==
    \E m \in MarketIds :
        /\ Allocated(m)
        /\ markets[m].status = "Resolved"
        /\ markets[m].outcome = "Yes"
        /\ markets[m].transcriptHash = <<"h2">>
        /\ settleResult(Owner, m, "No") = "Settlement not requested"
        /\ escalateResult(Owner, m) = "Settlement not requested"

\* C12: requestSettlement succeeds exactly when the market is Open and the time
\* has reached its deadline, whoever calls; before the deadline it is rejected
\* with "Deadline not reached", on a market that left Open with "Market not
\* open"; a successful call moves the market to SettlementRequested, and a
\* market that left Open never is Open again, so a second call always fails.
C12_ResultState ==
    \A m \in MarketIds :
        /\ requestSettlementResult(m) = "ok" <=>
                (markets[m].status = "Open" /\ now >= markets[m].deadline)
        /\ (markets[m].status = "Open" /\ now < markets[m].deadline) =>
                requestSettlementResult(m) = "Deadline not reached"
        /\ markets[m].status # "Open" =>
                requestSettlementResult(m) = "Market not open"

C12_RequestStep ==
    \A m \in MarketIds :
        /\ requestSettlementResult(m) = "ok" =>
             \A s \in Users :
                requestSettlement(s, m) =>
                    markets'[m].status = "SettlementRequested"
        /\ markets'[m] # markets[m] =>
             \A s \in Users :
                requestSettlementResult(m) # "ok" => ~requestSettlement(s, m)
        /\ (Allocated(m) /\ markets[m].status # "Open") =>
                markets'[m].status # "Open"

C12_RequestSettlementGuard == []C12_ResultState /\ [][C12_RequestStep]_vars

\* C12 witness: settlement of a market with stakes was requested at the very
\* deadline, and a second request is now rejected.
C12_Witness ==
    \E m \in MarketIds :
        /\ Allocated(m)
        /\ markets[m].status = "SettlementRequested"
        /\ now = markets[m].deadline
        /\ markets[m].yesPool > 0
        /\ requestSettlementResult(m) = "Market not open"

\* C13: a settle or escalate call from an account other than the owner is
\* rejected and changes nothing, and no step of createMarket, takePosition,
\* requestSettlement, sendTrialRequest, claimWinnings or claimRefund moves a
\* market to Resolved or Escalated.
C13_OwnerState ==
    \A m \in MarketIds, s \in Users \ {Owner}, o \in Verdict :
        /\ settleResult(s, m, o) = "OwnableUnauthorizedAccount"
        /\ escalateResult(s, m) = "OwnableUnauthorizedAccount"

\* the step moves market m to Resolved or Escalated
Finalized(m) ==
    /\ markets'[m].status \in {"Resolved", "Escalated"}
    /\ markets'[m].status # markets[m].status

C13_AuthorityStep ==
    /\ ledgerVars' # ledgerVars =>
         \A m \in MarketIds, s \in Users \ {Owner}, h \in Hashes :
            /\ ~escalate(s, m, h)
            /\ \A o \in Verdict : ~settle(s, m, o, h)
    /\ \A m \in MarketIds :
         Finalized(m) =>
            /\ \A s \in Users, d \in 0 .. MaxTime, v \in DepositValues :
                    ~createMarket(s, d, v)
            /\ \A s \in Users, k \in MarketIds, side \in Verdict, v \in Amounts :
                    ~takePosition(s, k, side, v)
            /\ \A s \in Users, k \in MarketIds :
                    /\ ~requestSettlement(s, k)
                    /\ ~sendTrialRequest(s, k)
            /\ \A s \in Users, k \in MarketIds, acc \in BOOLEAN :
                    /\ ~claimWinnings(s, k, acc)
                    /\ ~claimRefund(s, k, acc)

C13_OnlyAuthorityFinalizes == []C13_OwnerState /\ [][C13_AuthorityStep]_vars

\* C13 witness: a staked market awaits settlement with a trial request pending;
\* the owner's settle would succeed while alice's settle and bob's escalate are
\* rejected as unauthorized.
C13_Witness ==
    \E m \in MarketIds :
        /\ Allocated(m)
        /\ markets[m].status = "SettlementRequested"
        /\ markets[m].yesPool > 0 /\ markets[m].noPool > 0
        /\ requests[1] = "pending"
        /\ settleResult(Owner, m, "Yes") = "ok"
        /\ settleResult("alice", m, "Yes") = "OwnableUnauthorizedAccount"
        /\ escalateResult("bob", m) = "OwnableUnauthorizedAccount"

\* C14: takePosition is rejected exactly when the amount is zero, the time is
\* at or after the deadline, the market is not Open or the side is neither Yes
\* nor No, and a rejected call leaves pools and positions unchanged; an
\* accepted call adds the amount to the chosen side's pool and to the caller's
\* position on that side and to nothing else.
C14_ResultState ==
    \A m \in MarketIds, side \in Verdict, v \in Amounts :
        takePositionResult(m, side, v) # "ok" <=>
            \/ v = 0
            \/ now >= markets[m].deadline
            \/ markets[m].status # "Open"
            \/ side \notin {"Yes", "No"}

\* pools of all markets, as a function
Pools == [m \in MarketIds |-> <<markets[m].yesPool, markets[m].noPool>>]

C14_StakeStep ==
    /\ (yesPositions' # yesPositions \/ noPositions' # noPositions
            \/ Pools' # Pools) =>
         \A s \in Users, m \in MarketIds, side \in Verdict, v \in Amounts :
            takePositionResult(m, side, v) # "ok" => ~takePosition(s, m, side, v)
    /\ \A m \in MarketIds :
         markets[m].status = "Open" =>
            \A s \in Users, side \in {"Yes", "No"}, v \in Amounts \ {0} :
                (takePositionResult(m, side, v) = "ok"
                        /\ takePosition(s, m, side, v)) =>
                    /\ yesPositions' = [yesPositions EXCEPT ![m][s] =
                            IF side = "Yes" THEN @ + v ELSE @]
                    /\ noPositions' = [noPositions EXCEPT ![m][s] =
                            IF side = "No" THEN @ + v ELSE @]
                    /\ Pools' = [Pools EXCEPT ![m] =
                            IF side = "Yes" THEN <<@[1] + v, @[2]>>
                                            ELSE <<@[1], @[2] + v>>]

C14_TakePositionGuard == []C14_ResultState /\ [][C14_StakeStep]_vars

\* C14 witness: alice staked 1 on YES and bob 2 on NO; the deadline has come
\* with the market still Open, and a further stake is rejected.
C14_Witness ==
    \E m \in MarketIds :
        /\ markets[m].status = "Open"
        /\ now >= markets[m].deadline
        /\ yesPositions[m]["alice"] = 1
        /\ noPositions[m]["bob"] = 2
        /\ Pools[m] = <<1, 2>>
        /\ takePositionResult(m, "Yes", 1) = "Past deadline"

\* C15: createMarket is rejected exactly when the deadline is not after the
\* current time or the deposit is below CREATION_DEPOSIT; a successful call
\* raises nextMarketId by one and writes, at the id it had, a market that is
\* Open with outcome None, empty pools and the caller as creator, leaving every
\* existing market as it was; no step removes a market or changes the creator
\* or the deadline of an existing one.
C15_ResultState ==
    \A d \in 0 .. MaxTime, v \in DepositValues :
        createMarketResult(d, v) # "ok" <=> (d <= now \/ v < CREATION_DEPOSIT)

C15_CreateStep ==
    /\ nextMarketId' >= nextMarketId
    /\ \A m \in MarketIds :
         Allocated(m) =>
            /\ markets'[m].creator = markets[m].creator
            /\ markets'[m].deadline = markets[m].deadline
    /\ (nextMarketId' # nextMarketId \/ markets' # markets) =>
         \A s \in Users, d \in 0 .. MaxTime, v \in DepositValues :
            /\ createMarketResult(d, v) # "ok" => ~createMarket(s, d, v)
            /\ (createMarketResult(d, v) = "ok" /\ createMarket(s, d, v)) =>
                    /\ nextMarketId' = nextMarketId + 1
                    /\ markets'[nextMarketId].status = "Open"
                    /\ markets'[nextMarketId].outcome = "None"
                    /\ markets'[nextMarketId].yesPool = 0
                    /\ markets'[nextMarketId].noPool = 0
                    /\ markets'[nextMarketId].creator = s
                    /\ markets'[nextMarketId].deadline = d
                    /\ \A m \in MarketIds :
                            Allocated(m) => markets'[m] = markets[m]

C15_CreateMarket == []C15_ResultState /\ [][C15_CreateStep]_vars

\* C15 witness: bob created market 1 after alice's market 0 had taken a stake
\* and gone to settlement; market 0 is as it was.
C15_Witness ==
    /\ nextMarketId = 2
    /\ markets[0].creator = "alice"
    /\ markets[0].status = "SettlementRequested"
    /\ markets[0].yesPool = 2
    /\ markets[1].creator = "bob"
    /\ markets[1].status = "Open"
    /\ markets[1].yesPool = 0
    /\ markets[1].deadline > markets[0].deadline

\* the outcome of a call is a rejection, text that is not JSON, or JSON that
\* the schema refuses
FailedAdvocateCall(response) ==
    \/ response.kind = "rejects"
    \/ /\ response.kind = "content"
       /\ \/ response.content[1] # "json"
          \/ ~AdvocateArgumentSchema(response.content[2])

FailedJudgeCall(response) ==
    \/ response.kind = "rejects"
    \/ /\ response.kind = "content"
       /\ \/ response.content[1] # "json"
          \/ ~JudgeRulingSchema(response.content[2])

\* C16: when an advocate's or the judge's call rejects, answers with text that
\* is not JSON or with JSON the schema refuses, runTrial does not return: no
\* transcript and no decision exist, the failed call's promise is rejected (no
\* default is put in its place), the only way on is the rejection of runTrial,
\* and after an advocate's failure the judge is never called.
C16_FailState ==
    /\ \A sd \in Sides :
         FailedAdvocateCall(advocates[sd].response) =>
            /\ advocates[sd].status = "rejected"
            /\ advocates[sd].argument = NoArgument
            /\ judge.status = "idle"
            /\ pc \in {"advocates", "rejected"}
            /\ ~transcript.complete
            /\ decision = NoDecision
    /\ FailedJudgeCall(judge.response) =>
            /\ judge.status = "rejected"
            /\ pc \in {"judge", "rejected"}
            /\ ~transcript.complete
            /\ decision = NoDecision
    /\ pc = "rejected" => (~transcript.complete /\ decision = NoDecision)
    /\ pc = "done" <=> transcript.complete

C16_FailStep ==
    ( \/ \E sd \in Sides : FailedAdvocateCall(advocates[sd].response)
      \/ FailedJudgeCall(judge.response) )
        => (pc' = pc \/ pc' = "rejected")

C16_FailureFailsTrial == []C16_FailState /\ [][C16_FailStep]_vars

\* C16 witness: YES answered well and NO answered with text that is not JSON;
\* runTrial has rejected and the judge was not called.
C16_Witness ==
    /\ pc = "rejected"
    /\ advocates["YES"].status = "fulfilled"
    /\ advocates["NO"].response = Content(<<"text", "I cannot answer">>)
    /\ judge.status = "idle"

\* C17: gatherEvidence never rejects: whatever sources there are and whichever
\* of them reject, runTrial gets a bundle, and the items of the bundle are
\* exactly the items of the sources that fulfilled (none when none did).
C17_BundleState ==
    /\ pc = "rejected" => evidence.gathered
    /\ evidence.gathered =>
         LET fulfilled == {i \in DOMAIN fetches :
                                fetches[i].status = "fulfilled"}
             count == [i \in DOMAIN fetches |->
                          IF i \in fulfilled THEN Len(fetches[i].value) ELSE 0]
         IN /\ \A i \in DOMAIN fetches :
                    fetches[i].status \in {"fulfilled", "rejected"}
            /\ {evidence.items[j] : j \in DOMAIN evidence.items} =
                    UNION {{fetches[i].value[k] : k \in DOMAIN fetches[i].value} :
                                i \in fulfilled}
            /\ Len(evidence.items) = SumOver(count, DOMAIN fetches)
            /\ \A j, k \in DOMAIN evidence.items :
                    (j < k) => evidence.items[j][1] <= evidence.items[k][1]

C17_GatherStep == pc = "evidence" => pc' \in {"evidence", "gathered"}

C17_EvidenceNeverRejects == []C17_BundleState /\ [][C17_GatherStep]_vars

\* C17 witness: of two sources the first rejected and the second delivered two
\* items; the bundle holds those two.
C17_Witness ==
    /\ evidence.gathered
    /\ Len(fetches) = 2
    /\ fetches[1].status = "rejected"
    /\ fetches[2].status = "fulfilled"
    /\ evidence.items = << <<2, 1>>, <<2, 2>> >>

\* C17 witness for the case that every source rejects: the bundle is empty
C17_WitnessAllFail ==
    /\ evidence.gathered
    /\ Len(fetches) = 2
    /\ \A i \in DOMAIN fetches : fetches[i].status = "rejected"
    /\ evidence.items = <<>>

StageOrder == <<"evidence", "advocates", "judge", "decision", "complete">>

\* C18: runTrial enters its stages in the order evidence, advocates, judge,
\* decision and none twice; the advocates are called only when evidence
\* gathering has completed, the judge only when both advocates have completed
\* successfully, and the decision is taken only on the judge's ruling.
C18_OrderState ==
    /\ Len(stages) <= Len(StageOrder)
    /\ stages = SubSeq(StageOrder, 1, Len(stages))
    /\ \A sd \in Sides :
         advocates[sd].status # "idle" =>
            /\ evidence.gathered
            /\ \A i \in DOMAIN fetches :
                    fetches[i].status \in {"fulfilled", "rejected"}
    /\ judge.status # "idle" =>
         \A sd \in Sides : advocates[sd].status = "fulfilled"
    /\ decision # NoDecision =>
         /\ judge.status = "fulfilled"
         /\ decision = evaluateConfidence(judge.ruling, rubric)

C18_OrderStep ==
    /\ Len(stages') >= Len(stages)
    /\ SubSeq(stages', 1, Len(stages)) = stages

C18_StagesInOrder == []C18_OrderState /\ [][C18_OrderStep]_vars

\* C18 witness: a trial on three evidence items that went through all stages
\* and resolved.
C18_Witness ==
    /\ pc = "done"
    /\ stages = StageOrder
    /\ Len(evidence.items) = 3
    /\ decision.action = "RESOLVE"

\* C19: the two advocate calls are issued in one step, before either has a
\* result, and each call's request is made of its own side, the question, the
\* rubric and the evidence bundle and of nothing else; the request stays as
\* issued whichever advocate completes first.
C19_RequestState ==
    /\ (\E sd \in Sides : advocates[sd].status # "idle") =>
            (\A sd \in Sides : advocates[sd].status # "idle")
    /\ \A sd \in Sides :
         advocates[sd].status # "idle" =>
            /\ advocates[sd].request.systemPrompt = <<"advocate", sd>>
            /\ advocates[sd].request.userPrompt =
                    <<Question, Criteria, evidence.items>>

C19_IssueStep ==
    \A sd \in Sides :
        /\ (advocates[sd].status = "idle" /\ advocates'[sd].status # "idle") =>
                \A other \in Sides :
                    /\ advocates[other].status = "idle"
                    /\ advocates'[other].status = "called"
                    /\ advocates'[other].response = NoResponse
                    /\ advocates'[other].argument = NoArgument
        /\ advocates[sd].status # "idle" =>
                advocates'[sd].request = advocates[sd].request

C19_AdvocatesIndependent == []C19_RequestState /\ [][C19_IssueStep]_vars

\* C19 witness: NO has answered while YES is still pending
C19_Witness ==
    /\ advocates["NO"].status = "fulfilled"
    /\ advocates["YES"].status = "called"
    /\ Len(evidence.items) > 0

\* C19 witness for the other order: YES has answered while NO is still pending
C19_WitnessYesFirst ==
    /\ advocates["YES"].status = "fulfilled"
    /\ advocates["NO"].status = "called"

\* the arguments hold exactly one CriterionArgument for every rubric criterion
CoversRubric(arguments) ==
    /\ Len(arguments) = Len(Criteria)
    /\ \A c \in DOMAIN Criteria :
         \E i \in DOMAIN arguments : arguments[i].criterion = Criteria[c]

\* C20: an advocate whose answer does not hold exactly one argument for every
\* criterion of the rubric is rejected by runAdvocate: every argument that
\* runAdvocate has returned covers the rubric, and so does every argument in a
\* transcript.
C20_CoverageEnforced ==
    /\ \A sd \in Sides :
         advocates[sd].status = "fulfilled" =>
            CoversRubric(advocates[sd].argument.arguments)
    /\ transcript.complete =>
         /\ CoversRubric(transcript.advocateYes.arguments)
         /\ CoversRubric(transcript.advocateNo.arguments)

\* the citations of an advocate's argument
CitationsOf(argument) ==
    UNION {{argument.arguments[i].evidenceCitations[k] :
                k \in DOMAIN argument.arguments[i].evidenceCitations} :
            i \in DOMAIN argument.arguments}

\* the citations of both advocates that are not a title of the bundle
FabricatedCitations ==
    UNION {CitationsOf(advocates[sd].argument) : sd \in Sides}
        \ {EvidenceTitle(evidence.items[j]) : j \in DOMAIN evidence.items}

\* C21: when the judge has returned a ruling, every citation of either
\* advocate that is not a title of the evidence bundle is in the ruling's
\* hallucinationsDetected, and a trial with such a citation is not decided
\* RESOLVE.
C21_HallucinationsReported ==
    judge.status = "fulfilled" =>
        /\ FabricatedCitations \subseteq
                {judge.ruling.hallucinationsDetected[k] :
                    k \in DOMAIN judge.ruling.hallucinationsDetected}
        /\ FabricatedCitations # {} => decision.action # "RESOLVE"

\* C22: in a Resolved market in which nobody holds a position on the winning
\* side any more, the ether paid out equals yesPool + noPool: nothing of the
\* market's pools stays in the ledger.
C22_FullyDistributed ==
    \A m \in MarketIds :
        ( /\ Allocated(m)
          /\ markets[m].status = "Resolved"
          /\ \A u \in Users : WinningPosition(m, u) = 0 )
        => totalPaid[m] = markets[m].yesPool + markets[m].noPool

\* what a monitor tracks per market: status, outcome, pools and the positions
\* that can still be claimed
View ==
    [m \in MarketIds |->
        [status |-> markets[m].status, outcome |-> markets[m].outcome,
         yesPool |-> markets[m].yesPool, noPool |-> markets[m].noPool,
         yes |-> yesPositions[m], no |-> noPositions[m]]]

\* the monitor's view after one event
ApplyEvent(view, e) ==
    IF e.name = "MarketCreated"
    THEN [view EXCEPT ![e.marketId] =
            [@ EXCEPT !.status = "Open", !.outcome = "None",
                      !.yesPool = 0, !.noPool = 0]]
    ELSE IF e.name = "PositionTaken" /\ e.side = "Yes"
    THEN [view EXCEPT ![e.marketId] =
            [@ EXCEPT !.yesPool = @ + e.amount,
                      !.yes[e.participant] = @ + e.amount]]
    ELSE IF e.name = "PositionTaken"
    THEN [view EXCEPT ![e.marketId] =
            [@ EXCEPT !.noPool = @ + e.amount,
                      !.no[e.participant] = @ + e.amount]]
    ELSE IF e.name = "SettlementRequested"
    THEN [view EXCEPT ![e.marketId].status = "SettlementRequested"]
    ELSE IF e.name = "MarketResolved"
    THEN [view EXCEPT ![e.marketId] =
            [@ EXCEPT !.status = "Resolved", !.outcome = e.outcome]]
    ELSE IF e.name = "MarketEscalated"
    THEN [view EXCEPT ![e.marketId].status = "Escalated"]
    ELSE IF e.name = "RefundClaimed"
    THEN [view EXCEPT ![e.marketId] =
            [@ EXCEPT !.yes[e.participant] = 0, !.no[e.participant] = 0]]
    ELSE view

RECURSIVE Replay(_, _)
Replay(view, events) ==
    IF Len(events) = 0 THEN view
    ELSE Replay(ApplyEvent(view, Head(events)), Tail(events))

\* C23: every successful operation emits an event, and the events of each
\* transaction carry its whole effect on status, outcome, pools and claimable
\* positions: replaying them on the view before the transaction gives the
\* view after it.
C23_EventLogComplete ==
    [][ /\ View' = Replay(View, log')
        /\ (markets' # markets \/ yesPositions' # yesPositions
                \/ noPositions' # noPositions \/ balance' # balance)
            => log' # <<>> ]_vars

\* C24: evaluateConfidence is deterministic and free of side effects: whenever
\* a decision exists, its action, verdict, margin and reason are the ones the
\* evaluation gives for the (ruling, rubric) held at that moment, so two
\* evaluations on equal inputs agree, and no step of the evaluation changes
\* the ruling or the rubric.
C24_DecisionState ==
    decision # NoDecision =>
        LET again == evaluateConfidence(ruling, rubric) IN
        /\ decision.action = again.action
        /\ decision.verdict = again.verdict
        /\ decision.margin = again.margin
        /\ decision.reason = again.reason

C24_InputsStep ==
    decision' # decision => (ruling' = ruling /\ rubric' = rubric)

Recorded == [m \in MarketIds |-> markets[m].creationDeposit]

\* C25: claimCreationDeposit succeeds only for the creator of a Resolved or
\* Escalated market whose deposit has not been claimed; another caller is
\* rejected with "Not market creator", the creator of an unsettled market with
\* "Market not settled", the creator after a claim with "Deposit already
\* claimed". A recorded deposit changes only by a successful claim, which
\* transfers exactly the recorded amount and leaves nothing to claim again; a
\* rejected call transfers nothing.
C25_ResultState ==
    \A s \in Users, m \in MarketIds, acc \in BOOLEAN :
        LET mk == markets[m]
            settled == mk.status \in {"Resolved", "Escalated"}
            result == claimCreationDepositResult(s, m, acc)
        IN
        /\ result = "ok" =>
                (s = mk.creator /\ settled /\ mk.creationDeposit > 0)
        /\ s # mk.creator => result = "Not market creator"
        /\ (s = mk.creator /\ ~settled) => result = "Market not settled"
        /\ (s = mk.creator /\ settled /\ mk.creationDeposit = 0) =>
                result = "Deposit already claimed"

C25_DepositStep ==
    /\ \A m \in MarketIds :
         (Allocated(m) /\ Recorded'[m] # Recorded[m]) =>
            /\ Recorded'[m] = 0
            /\ balance' = balance - Recorded[m]
            /\ markets[m].status \in {"Resolved", "Escalated"}
            /\ markets'[m] = [markets[m] EXCEPT !.creationDeposit = 0]
    /\ (Recorded' # Recorded \/ balance' < balance) =>
         \A s \in Users, m \in MarketIds, acc \in BOOLEAN :
            /\ claimCreationDepositResult(s, m, acc) # "ok" =>
                    ~claimCreationDeposit(s, m, acc)
            /\ (claimCreationDepositResult(s, m, acc) = "ok"
                    /\ claimCreationDeposit(s, m, acc)) =>
                    /\ Recorded[m] >= CREATION_DEPOSIT
                    /\ balance' = balance - Recorded[m]
                    /\ Recorded'[m] = 0
                    /\ claimCreationDepositResult(s, m, acc)' =
                            "Deposit already claimed"

C25_CreatorClaimsDepositOnce == []C25_ResultState /\ [][C25_DepositStep]_vars

\* C25 witness: the creator has taken back a deposit above the minimum from an
\* Escalated market in which a stake is still held; the contract holds the
\* stake only, and a further claim is rejected.
C25_Witness ==
    \E m \in MarketIds :
        /\ Allocated(m)
        /\ markets[m].status = "Escalated"
        /\ markets[m].creationDeposit = 0
        /\ markets[m].yesPool = 1
        /\ totalPaid[m] = 0
        /\ balance = 1
        /\ claimCreationDepositResult(markets[m].creator, m, TRUE)
                = "Deposit already claimed"

\* C26: a fulfilment callback with a non-empty error or an empty response
\* leaves its market Escalated with outcome None, whatever the response bytes;
\* a callback without error resolves the market when the action is 1 and
\* escalates it for every other action.
C26_CallbackOutcome ==
    [][\A r \in RequestIds :
         (requests[r] = "pending" /\ requests'[r] = "fulfilled") =>
            \A resp \in Responses, err \in Errors :
                fulfillRequest(r, resp, err) =>
                    LET after == markets'[s_requestIdToMarketId[r]] IN
                    IF Len(err) > 0 \/ Len(resp) = 0
                    THEN after.status = "Escalated" /\ after.outcome = "None"
                    ELSE IF resp[1] = 1
                    THEN after.status = "Resolved"
                    ELSE after.status = "Escalated"]_vars

\* C27: of the callers racing for the same transition of a market at most one
\* succeeds. Once a requestSettlement or performUpkeep has moved a market out
\* of Open, every later requestSettlement and performUpkeep on it is rejected
\* and changes nothing; once a settle or escalate has settled it, every later
\* settle and escalate on it is rejected and changes nothing; and no step gives
\* a market back the status that lets the loser of the race succeed.
C27_LoserState ==
    \A m \in MarketIds :
        Allocated(m) =>
            /\ markets[m].status # "Open" =>
                    requestSettlementResult(m) = "Market not open"
            /\ markets[m].status \in {"Resolved", "Escalated"} =>
                    \A s \in Users, o \in Verdict :
                        /\ settleResult(s, m, o) # "ok"
                        /\ escalateResult(s, m) # "ok"

C27_RaceStep ==
    \A m \in MarketIds :
        Allocated(m) =>
            /\ markets[m].status # "Open" => markets'[m].status # "Open"
            /\ markets[m].status \in {"Resolved", "Escalated"} =>
                    markets'[m].status # "SettlementRequested"
            /\ (markets[m].status # "Open" /\ ledgerVars' # ledgerVars) =>
                    \A s \in Users :
                        ~requestSettlement(s, m) /\ ~performUpkeep(s, m)
            /\ (markets[m].status \in {"Resolved", "Escalated"}
                    /\ ledgerVars' # ledgerVars) =>
                    \A s \in Users, o \in Verdict, h \in Hashes :
                        ~settle(s, m, o, h) /\ ~escalate(s, m, h)

C27_OneRacerSucceeds == []C27_LoserState /\ [][C27_RaceStep]_vars

\* C27 witness: the deadline passed with the market Open, so a keeper and a
\* manual caller could both ask for settlement; one did, the owner's settle and
\* escalate could then both succeed, the owner escalated, and now
\* requestSettlement, settle and escalate are all rejected.
C27_Witness ==
    \E m \in MarketIds :
        /\ Allocated(m)
        /\ now > markets[m].deadline
        /\ markets[m].status = "Escalated"
        /\ markets[m].outcome = "None"
        /\ markets[m].transcriptHash = <<"h1">>
        /\ requestCounter = 0
        /\ requestSettlementResult(m) = "Market not open"
        /\ settleResult(Owner, m, "Yes") = "Settlement not requested"
        /\ escalateResult(Owner, m) = "Settlement not requested"

\* C28: while claimWinnings is in its ether transfer the caller's winning
\* position is already zero, so a claim the recipient issues from inside the
\* transfer is rejected, and would find no winning position even without the
\* guard; whatever the recipient does, a position is paid at most once and a
\* market never pays out more than its pools.
C28_TransferState ==
    /\ frame.active =>
            /\ WinningPosition(frame.marketId, frame.sender) = 0
            /\ frame.payout > 0
            /\ claimWinningsResult(frame.sender, frame.marketId, TRUE)
                    = "No winning position"
            /\ \A m \in MarketIds :
                    NestedClaimResult(frame.sender, m) # "ok"
    /\ \A m \in MarketIds :
            /\ \A u \in Users : winClaims[m][u] <= 1
            /\ totalPaid[m] <= markets[m].yesPool + markets[m].noPool

C28_TransferStep ==
    (frame.active /\ frame'.active) =>
        /\ UNCHANGED ledgerVars
        /\ frame'.reentered = frame.reentered + 1

C28_ZeroBeforeTransfer == []C28_TransferState /\ [][C28_TransferStep]_vars

\* C28 witness: alice, the only YES staker against bob's NO stake, is in the
\* transfer of her winnings; she has re-entered twice and was rejected each
\* time, and the contract has sent the two pools once.
C28_Witness ==
    /\ frame.active
    /\ frame.sender = "alice"
    /\ frame.reentered = MaxReenter
    /\ frame.payout = 2
    /\ frame.yesPositions[frame.marketId]["alice"] = 1
    /\ yesPositions[frame.marketId]["alice"] = 0
    /\ noPositions[frame.marketId]["bob"] = 1
    /\ balance = CREATION_DEPOSIT

\* ether the contract must hold: deposits and stakes received, less what was
\* paid out
Owed ==
    SumOver([m \in MarketIds |->
                markets[m].creationDeposit + markets[m].yesPool
                    + markets[m].noPool - totalPaid[m]], MarketIds)

\* C29: a rejected call changes nothing in the ledger: no step that changes
\* the ledger is a call whose checks reject it, whatever the reason (status,
\* deadline, zero stake, caller, no position, second claim), and a
\* claimWinnings whose transfer fails gives the caller's positions back as
\* they were before the call, pays nothing and counts no claim.
C29_BalanceState == ~frame.active => balance = Owed

C29_RejectStep ==
    (~frame.active /\ ledgerVars' # ledgerVars) =>
        /\ \A s \in Users, d \in 0 .. MaxTime, v \in DepositValues :
                createMarketResult(d, v) # "ok" => ~createMarket(s, d, v)
        /\ \A s \in Users, m \in MarketIds :
            /\ \A side \in Verdict, v \in Amounts :
                    takePositionResult(m, side, v) # "ok" =>
                        ~takePosition(s, m, side, v)
            /\ requestSettlementResult(m) # "ok" => ~requestSettlement(s, m)
            /\ \A o \in Verdict, h \in Hashes :
                    settleResult(s, m, o) # "ok" => ~settle(s, m, o, h)
            /\ \A h \in Hashes :
                    escalateResult(s, m) # "ok" => ~escalate(s, m, h)
            /\ \A acc \in BOOLEAN :
                    claimRefundResult(s, m, acc) # "ok" =>
                        ~claimRefund(s, m, acc)
            /\ claimWinningsResult(s, m, TRUE) # "ok" =>
                    ~claimWinningsEnter(s, m)

C29_FailedTransferStep ==
    (frame.active /\ ~frame'.active /\ ~frame'.sent) =>
        /\ yesPositions' = frame.yesPositions
        /\ noPositions' = frame.noPositions
        /\ IF markets[frame.marketId].outcome = "Yes"
           THEN yesPositions'[frame.marketId][frame.sender] > 0
           ELSE noPositions'[frame.marketId][frame.sender] > 0
        /\ balance' = Owed'
        /\ UNCHANGED <<now, nextMarketId, markets, s_functionsSource,
                       s_requestIdToMarketId, requests, requestCounter,
                       totalPaid, winClaims, refundClaims>>

C29_RejectedChangesNothing ==
    []C29_BalanceState /\ [][C29_RejectStep /\ C29_FailedTransferStep]_vars

\* C29 witness: bob's claimWinnings reached its transfer, the transfer failed
\* and the call was reverted: bob has his winning NO position of 2 again,
\* nothing was paid, and his next claim would succeed.
C29_Witness ==
    \E m \in MarketIds :
        /\ ~frame.active
        /\ frame # NoFrame
        /\ ~frame.sent
        /\ markets[m].status = "Resolved"
        /\ markets[m].outcome = "No"
        /\ noPositions[m]["bob"] = 2
        /\ yesPositions[m]["alice"] = 1
        /\ totalPaid[m] = 0
        /\ winClaims[m]["bob"] = 0
        /\ claimWinningsResult("bob", m, TRUE) = "ok"

\* C30: in every decision the verdict is null exactly when the action is
\* ESCALATE, and the margin is the distance between scoreYes and scoreNo,
\* whichever side the ruling names and whichever branch decided.
C30_VerdictAndMargin ==
    decision # NoDecision =>
        /\ decision.verdict = Null <=> decision.action = "ESCALATE"
        /\ decision.action \in {"ESCALATE", "RESOLVE"}
        /\ decision.margin >= 0
        /\ \/ decision.margin = ruling.scoreYes - ruling.scoreNo
           \/ decision.margin = ruling.scoreNo - ruling.scoreYes

\* C30 witness: a ruling that names NO the winner although YES leads by the
\* threshold is resolved NO with that lead as margin.
C30_Witness ==
    /\ decision # NoDecision
    /\ decision.action = "RESOLVE"
    /\ decision.verdict = "NO"
    /\ ruling.scoreYes > ruling.scoreNo
    /\ decision.margin = ruling.scoreYes - ruling.scoreNo
    /\ decision.margin = rubric.confidenceThreshold

\* C30 witness: an escalation for hallucinations carries a null verdict and a
\* margin above the threshold.
C30_WitnessEscalated ==
    /\ decision # NoDecision
    /\ decision.action = "ESCALATE"
    /\ decision.verdict = Null
    /\ decision.margin > rubric.confidenceThreshold
    /\ ruling.scoreNo > ruling.scoreYes

\* C31: no step lowers a market's yesPool or noPool; a pool changes only in a
\* successful takePosition on an Open market, which leaves the market Open;
\* from SettlementRequested on, through settlement, callbacks and every claim,
\* both pools stay as they are.
C31_PoolStep ==
    \A m \in MarketIds :
        Allocated(m) =>
            /\ Pools'[m][1] >= Pools[m][1]
            /\ Pools'[m][2] >= Pools[m][2]
            /\ markets[m].status # "Open" => Pools'[m] = Pools[m]
            /\ Pools'[m] # Pools[m] =>
                    /\ markets'[m].status = "Open"
                    /\ \E s \in Users, side \in {"Yes", "No"},
                          v \in Amounts \ {0} :
                            /\ takePositionResult(m, side, v) = "ok"
                            /\ takePosition(s, m, side, v)

C31_PoolsFrozenAfterOpen == [][C31_PoolStep]_vars

\* C31 witness: pools of 2 and 1 were built while the market was Open; the
\* market was resolved for YES by a callback, alice has been paid and bob's
\* losing stake is still recorded in the NO pool.
C31_Witness ==
    \E m \in MarketIds :
        /\ markets[m].status = "Resolved"
        /\ markets[m].outcome = "Yes"
        /\ requests[1] = "fulfilled"
        /\ Pools[m] = <<2, 1>>
        /\ winClaims[m]["alice"] = 1
        /\ totalPaid[m] = 3
        /\ noPositions[m]["bob"] = 1

\* C32: in every transcript a successful runTrial returns, advocateYes.side is
\* YES and advocateNo.side is NO, and the judge is never called with an
\* argument whose side differs from the side its advocate was given.
C32_SidesAsMandated ==
    /\ transcript.complete =>
            /\ transcript.advocateYes.side = "YES"
            /\ transcript.advocateNo.side = "NO"
    /\ judge.status # "idle" =>
            \A sd \in Sides : advocates[sd].argument.side = sd

\* C33: the verdict is never re-derived from the scores: a ruling without
\* hallucinations whose margin reaches the threshold and whose finalVerdict
\* names the side with the lower score is decided RESOLVE with that
\* finalVerdict.
C33_DeclaredVerdictKept ==
    ( /\ decision # NoDecision
      /\ ruling.hallucinationsDetected = <<>>
      /\ Abs(ruling.scoreYes - ruling.scoreNo) >= rubric.confidenceThreshold
      /\ \/ ruling.finalVerdict = "YES" /\ ruling.scoreYes < ruling.scoreNo
         \/ ruling.finalVerdict = "NO" /\ ruling.scoreNo < ruling.scoreYes )
    => /\ decision.action = "RESOLVE"
       /\ decision.verdict = ruling.finalVerdict

\* C33 witness: YES is declared the winner with the lowest score against the
\* highest, and the decision resolves YES.
C33_Witness ==
    /\ decision # NoDecision
    /\ ruling.hallucinationsDetected = <<>>
    /\ ruling.finalVerdict = "YES"
    /\ ruling.scoreYes = 0
    /\ ruling.scoreNo = MaxScore
    /\ rubric.confidenceThreshold = MaxThreshold
    /\ decision.verdict = "YES"

\* C34: no participant is ever paid by both claimWinnings and claimRefund for
\* the same market, and no market has paid both winnings and refunds.
C34_OneClaimPath ==
    \A m \in MarketIds :
        /\ \A u \in Users : ~(winClaims[m][u] > 0 /\ refundClaims[m][u] > 0)
        /\ ~(\E u \in Users : winClaims[m][u] > 0
                /\ \E w \in Users : refundClaims[m][w] > 0)

\* what market m still owes to its participants: the winners' payouts when it
\* is Resolved, all positions otherwise
Outstanding(m) ==
    IF markets[m].status = "Resolved"
    THEN IF WinnerPool(m) = 0 THEN 0
         ELSE SumOver([u \in Users |->
                        Payout(WinningPosition(m, u),
                               markets[m].yesPool + markets[m].noPool,
                               WinnerPool(m))], Users)
    ELSE SumOver([u \in Users |-> yesPositions[m][u] + noPositions[m][u]],
                 Users)

Liabilities ==
    SumOver([m \in MarketIds |-> markets[m].creationDeposit + Outstanding(m)],
            MarketIds)

\* C35: the contract always holds at least the unclaimed creation deposits
\* plus, per market, the outstanding positions (the outstanding winner payouts
\* for a Resolved market), so no claim that passes its checks fails for lack
\* of funds.
C35_Solvency ==
    /\ balance >= Liabilities
    /\ \A m \in MarketIds, u \in Users :
            /\ claimWinningsResult(u, m, TRUE) # "Transfer failed"
            /\ claimRefundResult(u, m, TRUE) # "Transfer failed"

\* what the ledger holds for market m
MarketState(m) == <<markets[m], yesPositions[m], noPositions[m]>>

\* the step is an operation addressed to market m
AddressedTo(m) ==
    \/ \E s \in Users, d \in 0 .. MaxTime, v \in DepositValues :
            m = nextMarketId /\ createMarket(s, d, v)
    \/ \E s \in Users, side \in Verdict, v \in Amounts :
            takePosition(s, m, side, v)
    \/ \E s \in Users : requestSettlement(s, m)
    \/ \E s \in Users, o \in Verdict, h \in Hashes : settle(s, m, o, h)
    \/ \E s \in Users, h \in Hashes : escalate(s, m, h)
    \/ \E s \in Users, acc \in BOOLEAN : claimWinnings(s, m, acc)
    \/ \E s \in Users, acc \in BOOLEAN : claimRefund(s, m, acc)
    \/ \E r \in RequestIds, resp \in Responses, err \in Errors :
            /\ requests[r] = "pending"
            /\ s_requestIdToMarketId[r] = m
            /\ fulfillRequest(r, resp, err)

\* C36: a step changes the status, outcome, pools, transcriptHash or positions
\* of at most one market, and that market is the one the operation is
\* addressed to; a fulfilment callback is addressed to the market its request
\* was sent for, since sendTrialRequest(m) records m under the new request id
\* and no step rewrites the entry of a request already sent.
C36_OtherMarketsStep ==
    /\ \A m \in MarketIds :
            MarketState(m)' # MarketState(m) =>
                /\ \A other \in MarketIds \ {m} :
                        MarketState(other)' = MarketState(other)
                /\ AddressedTo(m)
    /\ \A r \in RequestIds :
            /\ requests[r] # "none" =>
                    s_requestIdToMarketId'[r] = s_requestIdToMarketId[r]
            /\ (requests[r] = "none" /\ requests'[r] = "pending") =>
                    \E s \in Users :
                        /\ sendTrialRequestResult(s_requestIdToMarketId'[r])
                                = "ok"
                        /\ sendTrialRequest(s, s_requestIdToMarketId'[r])

C36_OtherMarketsUntouched == [][C36_OtherMarketsStep]_vars

\* C36 witness: market 1 was resolved YES by the callback of request 1, which
\* was sent for it, while market 0, with its stake, still awaits settlement.
C36_Witness ==
    /\ nextMarketId = 2
    /\ s_requestIdToMarketId[1] = 1
    /\ requests[1] = "fulfilled"
    /\ markets[1].status = "Resolved"
    /\ markets[1].outcome = "Yes"
    /\ markets[0].status = "SettlementRequested"
    /\ markets[0].outcome = "None"
    /\ markets[0].yesPool = 1
    /\ yesPositions[0]["alice"] = 1

\* C37: a market's outcome is Yes or No exactly when its status is Resolved;
\* it is None while the market is Open, SettlementRequested or Escalated.
C37_OutcomeIffResolved ==
    \A m \in MarketIds :
        markets[m].outcome \in {"Yes", "No"} <=> markets[m].status = "Resolved"

\* C38: the settlement step calls settle only for a RESOLVE decision, with
\* the decision's verdict as outcome (YES -> Yes, NO -> No), and escalate for
\* every ESCALATE decision; a decision with verdict null never leads to a
\* settle call, so a market is Resolved by this step only with the verdict of
\* a RESOLVE decision and Escalated only on an ESCALATE decision.
C38_CallState ==
    decision # NoDecision =>
        LET call == settlerCall(decision) IN
        /\ call.fn = "settle" <=> decision.action = "RESOLVE"
        /\ call.fn = "escalate" <=> decision.action = "ESCALATE"
        /\ decision.verdict = Null => call.fn = "escalate"
        /\ call.fn = "settle" =>
                call.outcome = IF decision.verdict = "YES" THEN "Yes" ELSE "No"

C38_SettleStep ==
    \A m \in MarketIds :
        /\ (markets[m].status # "Resolved" /\ markets'[m].status = "Resolved")
            => /\ decision.action = "RESOLVE"
               /\ decision.verdict \in {"YES", "NO"}
               /\ markets'[m].outcome =
                    IF decision.verdict = "YES" THEN "Yes" ELSE "No"
        /\ (markets[m].status # "Escalated"
                /\ markets'[m].status = "Escalated")
            => /\ decision.action = "ESCALATE"
               /\ decision.verdict = Null
               /\ markets'[m].outcome = "None"

C38_SettleOnlyOnResolve == []C38_CallState /\ [][C38_SettleStep]_vars

\* C38 witness: the ruling named NO with the lower score; the handler settled
\* the staked market as No and dropped the stored transcript.
C38_Witness ==
    \E m \in MarketIds :
        /\ markets[m].status = "Resolved"
        /\ markets[m].outcome = "No"
        /\ markets[m].yesPool > 0
        /\ ruling.finalVerdict = "NO"
        /\ ruling.scoreYes > ruling.scoreNo
        /\ decision = NoDecision
        /\ Len(log) = 1
        /\ log[1].name = "MarketResolved"
        /\ markets[m].transcriptHash =
                TranscriptHash(ruling, evaluateConfidence(ruling, rubric))

\* C38 witness: a ruling with a hallucination and a decisive margin was
\* escalated by the handler.
C38_WitnessEscalated ==
    \E m \in MarketIds :
        /\ markets[m].status = "Escalated"
        /\ ruling.hallucinationsDetected # <<>>
        /\ ruling.scoreYes > ruling.scoreNo + rubric.confidenceThreshold
        /\ decision = NoDecision
        /\ Len(log) = 1
        /\ log[1].name = "MarketEscalated"

\* the encoding of a decision: RESOLVE = 1, ESCALATE = 2; YES = 1, NO = 2,
\* null = 0
EncodeDecision(d) ==
    [action |-> IF d.action = "RESOLVE" THEN 1 ELSE 2,
     verdict |-> IF d.verdict = "YES" THEN 1
                 ELSE IF d.verdict = "NO" THEN 2 ELSE 0]

\* C39: for every ruling with integer scores in 0..100, either verdict and any
\* hallucination list, the (action, verdict) the Functions source computes is
\* the encoding of evaluateConfidence's decision at threshold 20.
C39_SourceAgrees ==
    decision # NoDecision =>
        /\ rubric.confidenceThreshold = SourceThreshold
        /\ trialSourceDecision(ruling) = EncodeDecision(decision)

\* C39 witness: at a margin equal to the threshold both resolve, for NO.
C39_Witness ==
    /\ decision # NoDecision
    /\ ruling.hallucinationsDetected = <<>>
    /\ ruling.finalVerdict = "NO"
    /\ ruling.scoreYes = MaxSourceScore
    /\ ruling.scoreNo = MaxSourceScore - SourceThreshold
    /\ decision.action = "RESOLVE"
    /\ trialSourceDecision(ruling) = [action |-> 1, verdict |-> 2]

\* C39 witness: with a hallucination both escalate, whatever the margin.
C39_WitnessEscalated ==
    /\ decision # NoDecision
    /\ ruling.hallucinationsDetected # <<>>
    /\ ruling.scoreYes = 0
    /\ ruling.scoreNo = MaxSourceScore
    /\ decision.action = "ESCALATE"
    /\ trialSourceDecision(ruling) = [action |-> 2, verdict |-> 0]

\* the markets checkUpkeep looks for: created, Open, at or past the deadline
Due == {m \in MarketIds : /\ Allocated(m)
                          /\ markets[m].status = "Open"
                          /\ now >= markets[m].deadline}

C40_CheckState ==
    /\ checkUpkeep.upkeepNeeded <=> Due # {}
    /\ Due # {} =>
            /\ checkUpkeep.performData \in {AbiEncode(m) : m \in Due}
            /\ \A m \in Due : AbiDecode(checkUpkeep.performData) <= m
    /\ Due = {} => checkUpkeep.performData = <<>>

\* C40: checkUpkeep reports upkeepNeeded exactly when some created market is
\* Open with the time at or after its deadline, and then returns the lowest such
\* id; with the keeper repeating checkUpkeep and performUpkeep on the returned
\* data, every market that is Open past its deadline eventually stops being
\* Open, also when several markets are past their deadline at once.
C40_KeeperSettlesAll ==
    /\ []C40_CheckState
    /\ \A m \in 0 .. (MaxRegistry - 1) :
            (m \in Due) ~> (markets[m].status = "SettlementRequested")

\* C40 witness: two markets are past their deadline at once; the keeper has
\* settled the lower one and now holds the id of the other.
C40_Witness ==
    /\ markets[0].status = "SettlementRequested"
    /\ Due = {1}
    /\ upkeep = [upkeepNeeded |-> TRUE, performData |-> AbiEncode(1)]

\* C40 witness: both markets are due and checkUpkeep returned the lower id.
C40_WitnessBothDue ==
    /\ Due = {0, 1}
    /\ upkeep = [upkeepNeeded |-> TRUE, performData |-> AbiEncode(0)]

====
